---- MODULE Spec2Model ----
(***************************************************************************)
(* osucraft: the per-tick gameplay engine (update_osu), the hitcircle      *)
(* lifetime system (update_hitcircle), the session state changes           *)
(* (Osu::change_state) and the selection click handlers.                   *)
(*                                                                         *)
(* Real-valued quantities are kept as scaled integers:                     *)
(*   difficulty values (od, ar, cs, hp) in tenths,                         *)
(*   health in thousandths (1000 = full),                                  *)
(*   durations in milliseconds unless the name ends in _us (microseconds). *)
(***************************************************************************)
EXTENDS Integers, Sequences, FiniteSets, TLC

(* ---------------------------- bounds ----------------------------------- *)
\* largest number of hit objects in a beatmap of the model
MaxObjects == 2
\* largest number of click events (swing / swap / drop) delivered in a tick
MaxClicks == 2
\* number of audio clock quanta in a track
AudioSteps == 4
\* largest number of judgements fed to the score keeping of one attempt
MaxJudgements == 5
\* largest count of Hit100, Hit50 and Miss in the beatmap states given to
\* score_text, and a fourth of the largest count of Hit300
MaxCount == 3
\* largest tick rate given to the conversion of the hit windows to ticks
MaxTps == 30
\* largest number of hit objects in the lists given to HitObject::z
MaxDepthObjects == 4
\* largest number of song directories, in the songs directory and after a
\* filter: two full pages and one song
MaxSongs == 73
\* largest number given to DigitsIter::new
MaxNumber == 1000
\* largest difficulty value (OD, AR, CS, HP) given to the difficulty
\* functions, in tenths: 10.0
DifficultyMax == 100

(* ------------------------ program constants ---------------------------- *)
TPS == 20
\* Osu::new(0.3, audio_player): the scale, in tenths
ScaleTenths == 3
\* health is kept in thousandths
HealthFull == 1000
\* the audio clock is observed in quanta of this many milliseconds
AudioQuantumMs == 1000

(* ------------------------------ helpers -------------------------------- *)
Max(a, b) == IF a >= b THEN a ELSE b
Min(a, b) == IF a <= b THEN a ELSE b
Abs(a) == IF a >= 0 THEN a ELSE -a

\* ceil(n / d) for d > 0 and any integer n  (f64::ceil)
CeilDiv(n, d) == IF n >= 0 THEN (n + d - 1) \div d ELSE -((-n) \div d)

\* `x as u64` of the real n / d (d > 0): truncation, negatives saturate to 0
AsU64(n, d) == IF n <= 0 THEN 0 ELSE n \div d

\* f64::round of n / d for d > 0: half away from zero
RoundDiv(n, d) == IF n >= 0 THEN (2 * n + d) \div (2 * d)
                  ELSE -((2 * (-n) + d) \div (2 * d))

\* a - b in u32: a release build wraps a negative difference to 2^32 + a - b,
\* which is beyond every value the model compares it with; the largest
\* integer of the checker stands for it
U32Sub(a, b) == IF a >= b THEN a - b ELSE 2147483647

Range(s) == {s[i] : i \in 1..Len(s)}

(* -------------------------- minecraft.rs ------------------------------- *)
\* to_ticks(tps, duration): ceil(duration.as_millis() / (1000 / tps))
to_ticks(tps, ms) == CeilDiv(ms * tps, 1000)

(* ---------------------- beatmap.rs: ApproachRate ----------------------- *)
\* ar in tenths; 600 * (5 - ar) / 5 = 12 * (50 - ar10), a whole number of
\* milliseconds for every ar in tenths.  1200.0 - 750.0 * (ar - 5.0) / 5.0 and
\* 800.0 - 500.0 * (ar - 5.0) / 5.0, evaluated in IEEE-754 binary64, are that
\* whole number or the double next below it, which `as u64` truncates to one
\* millisecond less; they are the double below for these ar among 0..110
\* (for ar = 9.3: 9.3 - 5.0 = 4.300000000000001, 1200 - 645.0000000000001 =
\* 554.9999999999999)
PreemptShort(ar) == ar \in {79, 83, 84, 88, 89, 93, 94, 98, 99, 103, 104, 108}
FadeInShort(ar) == ar \in {79, 83, 84, 88, 89, 93, 98, 103, 108}

to_preempt_duration(ar) ==
    IF ar < 50 THEN AsU64(1200 + 12 * (50 - ar), 1)
    ELSE IF ar = 50 THEN 1200
    ELSE AsU64(1200 - 15 * (ar - 50), 1) - (IF PreemptShort(ar) THEN 1 ELSE 0)

to_fade_in_duration(ar) ==
    IF ar < 50 THEN AsU64(800 + 8 * (50 - ar), 1)
    ELSE IF ar = 50 THEN 800
    ELSE AsU64(800 - 10 * (ar - 50), 1) - (IF FadeInShort(ar) THEN 1 ELSE 0)

\* (preempt + fade_in) / 2 as a Duration, in microseconds
to_mc_duration_us(ar) == ((to_preempt_duration(ar) + to_fade_in_duration(ar)) * 1000) \div 2

\* to_ticks takes duration.as_millis(), which truncates
to_mc_ticks(ar, tps) == to_ticks(tps, to_mc_duration_us(ar) \div 1000)

(* ------------------ osu.rs: From<OverallDifficulty> -------------------- *)
\* the three windows with the slope of the first
HitwindowFrom_OneSlope(od) ==
    [ window_300 |-> AsU64(800 - 6 * od, 10),
      window_100 |-> AsU64(1400 - 6 * od, 10),
      window_50  |-> AsU64(2000 - 6 * od, 10) ]

\* od in tenths: 80 - 6 * od = (800 - 6 * od10) / 10
HitwindowFrom(od) ==
    [ window_300 |-> AsU64(800 - 6 * od, 10),
      window_100 |-> AsU64(1400 - 8 * od, 10),
      window_50  |-> AsU64(2000 - 10 * od, 10) ]

(* ---------------------- hitcircle.rs: windows -------------------------- *)
\* the ticks of the first and the last window exchanged
HitwindowTicksFrom_Exchanged(hitwindow, tps) ==
    [ window_300 |-> to_ticks(tps, hitwindow.window_50),
      window_100 |-> to_ticks(tps, hitwindow.window_100),
      window_50  |-> to_ticks(tps, hitwindow.window_300) ]

HitwindowTicksFrom(hitwindow, tps) ==
    [ window_300 |-> to_ticks(tps, hitwindow.window_300),
      window_100 |-> to_ticks(tps, hitwindow.window_100),
      window_50  |-> to_ticks(tps, hitwindow.window_50) ]

\* the subtraction the other way round: window - hit_time
InWindow_Reversed(hit_time, window, ticks_left) ==
    /\ U32Sub(window, hit_time) <= ticks_left
    /\ ticks_left <= hit_time + window

\* (hit_time - window ..= hit_time + window).contains(&ticks_left), in u32
InWindow(hit_time, window, ticks_left) ==
    /\ U32Sub(hit_time, window) <= ticks_left
    /\ ticks_left <= hit_time + window

HitwindowTicks_hit_score_NoReference(w, ticks_left) ==
    IF InWindow(0, w.window_300, ticks_left) THEN "Hit300"
    ELSE IF InWindow(0, w.window_100, ticks_left) THEN "Hit100"
    ELSE IF InWindow(0, w.window_50, ticks_left) THEN "Hit50"
    ELSE "Miss"

HitwindowTicks_hit_score(w, ticks_left) ==
    LET hit_time == w.window_50
    IN  IF InWindow(hit_time, w.window_300, ticks_left) THEN "Hit300"
        ELSE IF InWindow(hit_time, w.window_100, ticks_left) THEN "Hit100"
        ELSE IF InWindow(hit_time, w.window_50, ticks_left) THEN "Hit50"
        ELSE "Miss"

\* half the radius: 18 for cs = 4.2 and scale = 1.0, the value that
\* test::hitcircle_radius expects
HitcircleRadiusFrom_Half(cs, scale) == CeilDiv((54400 - 448 * cs) * scale, 20000)

\* HitcircleRadius::from(cs, scale).circle: ceil((54.4 - 4.48 * cs) * scale)
\* cs and scale in tenths: (54400 - 448 * cs10) * scale10 / 10000
HitcircleRadiusFrom(cs, scale) == CeilDiv((54400 - 448 * cs) * scale, 10000)

\* Hitcircle::new: circle_ticks = preempt_ticks + hitwindow.window_50
CircleTicks(b) ==
    to_mc_ticks(b.ar, TPS) + HitwindowTicksFrom(HitwindowFrom(b.od), TPS).window_50

\* Hitcircle::from_beatmap / Hitcircle::new / Ring::new:
\* construction fails exactly when the radius is not positive
HitcircleFromBeatmapOk(b) == HitcircleRadiusFrom(b.cs, ScaleTenths) > 0

\* Hitcircle::hit_score(client, rings): no judgement when the aim ray misses
\* the circle, the window judgement of the remaining ticks otherwise
Hitcircle_hit_score(b, aim, ticks) ==
    IF aim THEN HitwindowTicks_hit_score(HitwindowTicksFrom(HitwindowFrom(b.od), TPS), ticks)
    ELSE "None"

(* ----------------------- hit_score.rs / scoring ------------------------ *)
HitValue(hit) ==
    CASE hit = "Hit300" -> 300
      [] hit = "Hit100" -> 100
      [] hit = "Hit50"  -> 50
      [] OTHER          -> 0

\* HpDrainRate::drain, health in thousandths, hp in tenths
HpDrain_NoClamp(hp, health, hit) ==
    health + (CASE hit = "Hit300" -> 102 - hp
                [] hit = "Hit100" -> 80 - hp
                [] hit = "Hit50"  -> 40 - hp
                [] OTHER          -> -2 * hp)

HpDrain(hp, health, hit) ==
    LET drain == CASE hit = "Hit300" -> 102 - hp
                   [] hit = "Hit100" -> 80 - hp
                   [] hit = "Hit50"  -> 40 - hp
                   [] OTHER          -> -2 * hp
    IN  Max(0, Min(HealthFull, health + drain))

\* BeatmapData::drain_time().as_secs()
DrainSecs(b) ==
    IF Len(b.hit_objects) = 0 THEN 0
    ELSE U32Sub(b.hit_objects[Len(b.hit_objects)], b.hit_objects[1]) \div 1000

\* BeatmapData::difficulty_multiplier: a division by zero seconds gives
\* inf or NaN, and f64::min(16.0) turns both into 16
difficulty_multiplier(b) ==
    LET n    == Len(b.hit_objects)
        secs == DrainSecs(b)
        s10  == b.hp + b.cs + b.od
        \* (s10 / 10 + density) as num / den
        num  == IF secs = 0 \/ n * 8 >= 16 * secs THEN s10 + 160
                ELSE s10 * secs + 80 * n
        den  == IF secs = 0 \/ n * 8 >= 16 * secs THEN 10 ELSE 10 * secs
    IN  RoundDiv(num * 5, den * 38)

\* value as f64 * (1.0 + k as f64 / 25.0), evaluated in IEEE-754 binary64 with
\* round-to-nearest, is the integer value + value * k / 25 or the double next
\* below it; it is the double below for these k among 0..128 (for k = 4:
\* 1.0 + 0.16 = 1.16, 100.0 * 1.16 = 115.99999999999999)
F64Short(value, k) ==
    \/ value = 300 /\ k \in {9, 41, 42, 43, 44, 57, 82, 84, 86, 88, 113, 114}
    \/ value \in {100, 50} /\ k \in {4, 41, 82, 84, 86, 88, 90}

\* a Miss takes the value of a Hit50 from the score
ScoreIncrement_MissCosts(b, combo, hit) ==
    IF hit = "Miss" THEN 0 - HitValue("Hit50")
    ELSE (HitValue(hit) * (25 + (IF combo = 0 THEN 0 ELSE combo - 1) * difficulty_multiplier(b)))
            \div 25

\* score += (value * (1.0 + combo_multiplier * difficulty_multiplier / 25.0)) as usize:
\* `as usize` truncates
ScoreIncrement(b, combo, hit) ==
    LET combo_multiplier == IF combo = 0 THEN 0 ELSE combo - 1
        k     == combo_multiplier * difficulty_multiplier(b)
        exact == (HitValue(hit) * (25 + k)) \div 25
    IN  IF F64Short(HitValue(hit), k) THEN exact - 1 ELSE exact

(* -------------------- beatmap.rs: BeatmapState ------------------------- *)
\* BeatmapState::accuracy, a percentage kept as the fraction num / den:
\* (hits300 * 100 + hits100 * 100 / 3 + hits50 * 100 / 6) / divisor, and 0
\* when the divisor is 0.  The f32 result differs from the fraction by a
\* relative error below 10^-6.
accuracy_SixthFor100(bs) ==
    LET divisor == bs.hits300 + bs.hits100 + bs.hits50 + bs.misses
    IN  IF divisor = 0 THEN [num |-> 0, den |-> 1]
        ELSE [num |-> 600 * bs.hits300 + 100 * bs.hits100 + 100 * bs.hits50,
              den |-> 6 * divisor]

accuracy(bs) ==
    LET divisor == bs.hits300 + bs.hits100 + bs.hits50 + bs.misses
    IN  IF divisor = 0 THEN [num |-> 0, den |-> 1]
        ELSE [num |-> 600 * bs.hits300 + 200 * bs.hits100 + 100 * bs.hits50,
              den |-> 6 * divisor]

grade_AFirst(bs) ==
    LET acc  == accuracy(bs)
        hits == bs.hits300 + bs.hits100 + bs.hits50 + bs.misses
        p300_gt(n, d) == hits > 0 /\ d * bs.hits300 > n * hits
        p50_le(n, d)  == hits > 0 /\ d * bs.hits50 <= n * hits
    IN  IF 1000 * acc.num >= 99999 * acc.den THEN "SS"
        ELSE IF (p300_gt(8, 10) /\ bs.misses = 0) \/ p300_gt(9, 10) THEN "A"
        ELSE IF bs.misses = 0 /\ p300_gt(9, 10) /\ p50_le(1, 100) THEN "S"
        ELSE IF (p300_gt(7, 10) /\ bs.misses = 0) \/ p300_gt(8, 10) THEN "B"
        ELSE IF p300_gt(6, 10) THEN "C"
        ELSE "D"

\* BeatmapState::grade: percentage300s = hits300 / hits and percentage50s =
\* hits50 / hits in f64; with hits = 0 both are NaN and every comparison with
\* them is false
grade(bs) ==
    LET acc  == accuracy(bs)
        hits == bs.hits300 + bs.hits100 + bs.hits50 + bs.misses
        p300_gt(n, d) == hits > 0 /\ d * bs.hits300 > n * hits
        p50_le(n, d)  == hits > 0 /\ d * bs.hits50 <= n * hits
    IN  IF 1000 * acc.num >= 99999 * acc.den THEN "SS"
        ELSE IF bs.misses = 0 /\ p300_gt(9, 10) /\ p50_le(1, 100) THEN "S"
        ELSE IF (p300_gt(8, 10) /\ bs.misses = 0) \/ p300_gt(9, 10) THEN "A"
        ELSE IF (p300_gt(7, 10) /\ bs.misses = 0) \/ p300_gt(8, 10) THEN "B"
        ELSE IF p300_gt(6, 10) THEN "C"
        ELSE "D"

(* ------------------------- beatmaps of the model ----------------------- *)
\* difficulty settings, with the time of the first hit object and the distance
\* in time between consecutive hit objects (milliseconds): a regular setting
\* with spaced objects that start at the lead time of 3000 ms, one with
\* simultaneous objects that start before it, whose HP drain ends an attempt
\* on the first miss, and one with objects that start after it, whose circle
\* size gives a radius that is not positive
Settings ==
    { [od |-> 50,  ar |-> 100, cs |-> 40,  hp |-> 50,  first |-> 3000, gap |-> 500],
      [od |-> 100, ar |-> 100, cs |-> 40,  hp |-> 500, first |-> 2900, gap |-> 0],
      [od |-> 50,  ar |-> 100, cs |-> 130, hp |-> 50,  first |-> 3100, gap |-> 0] }

\* BeatmapData as built by Beatmap::try_from: hit_objects holds the times
MkBeatmap(d, n) ==
    [od |-> d.od, ar |-> d.ar, cs |-> d.cs, hp |-> d.hp,
     hit_objects |-> [i \in 1..n |-> d.first + (i - 1) * d.gap]]

\* every setting with MaxObjects hit objects, and a beatmap without hit
\* objects, whose difficulty is never used
Beatmaps ==
    {MkBeatmap(d, MaxObjects) : d \in Settings}
        \cup {MkBeatmap(d, 0) : d \in {e \in Settings : e.first = 3000}}

NoBeatmap == [od |-> 0, ar |-> 0, cs |-> 0, hp |-> 0, hit_objects |-> <<>>]

\* the entities of the hitcircles of an attempt are named by the position of
\* their hit object in the beatmap, 1..MaxObjects
Entities == 1..MaxObjects
\* circles[e] of an entity that does not exist (never spawned, or despawned)
Absent == -1

\* BeatmapState::default
DefaultBeatmapState ==
    [ play_time_us |-> 0, hits300 |-> 0, hits100 |-> 0, hits50 |-> 0, misses |-> 0,
      active_hit_objects |-> <<>>, next_hit_object_idx |-> 0,
      score |-> 0, combo |-> 0, max_combo |-> 0, health |-> HealthFull ]

\* the judgements counted in a beatmap state (the divisor of accuracy)
JudgedCount(bs) == bs.hits300 + bs.hits100 + bs.hits50 + bs.misses

(* ------------------------------- state --------------------------------- *)
VARIABLES
    state,                  \* Osu.state: "None", "SongSelection", "BeatmapSelection", "PrePlaying", "Playing"
    ticks_left,             \* OsuState::PrePlaying.ticks_left
    beatmap,                \* Beatmap.data of PrePlaying / Playing
    bstate,                 \* Beatmap.state of PrePlaying / Playing
    circles,                \* Hitcircle.ticks of every hitcircle entity of the attempt, or Absent
    audio,                  \* AudioPlayer: playing = the sink holds a source, pos = clock quanta played
    beatmap_selection_data, \* Osu.beatmap_selection_data is Some
    inventory_loaded,       \* BeatmapSelectionInventory.beatmaps has been loaded
    judgements,             \* history: the judgements counted for each hit object of the attempt
    last                    \* history: what the last step did

vars == <<state, ticks_left, beatmap, bstate, circles, audio, beatmap_selection_data,
          inventory_loaded, judgements, last>>

NoCircles == [e \in Entities |-> Absent]
NoJudgements == [e \in Entities |-> <<>>]

\* kind: the handler that ran ("tick" and "play" are update_osu), change: the
\* state change it asked for, ok: change_state returned Ok, events: the click
\* events of the tick, accuracy and grade: what score_text has shown, aborted:
\* the beatmap of this PrePlaying or Playing was loaded over an attempt that
\* had counted judgements
Step(kind, change) ==
    [ kind |-> kind, change |-> change, ok |-> TRUE, expired |-> 0, spawned |-> 0,
      due |-> FALSE, spawn_failed |-> FALSE, judged |-> <<>>, events |-> <<>>,
      accuracy |-> [num |-> 0, den |-> 1], grade |-> "none", aborted |-> FALSE ]

\* Osu::new, AudioPlayer::new
Init ==
    /\ state = "None"
    /\ ticks_left = 0
    /\ beatmap = NoBeatmap
    /\ bstate = DefaultBeatmapState
    /\ circles = NoCircles
    /\ audio = [playing |-> FALSE, pos |-> 0]
    /\ beatmap_selection_data = FALSE
    /\ inventory_loaded = FALSE
    /\ judgements = NoJudgements
    /\ last = Step("init", "none")

(* ------------------------------ audio.rs ------------------------------- *)
\* AudioPlayer::stop: the sink is emptied, the play time of the execution stays
AudioStop(a) == [a EXCEPT !.playing = FALSE]
\* AudioPlayer::set_music followed by play: a new execution starts at zero
AudioSetMusicPlay(a) == [playing |-> TRUE, pos |-> 0]
\* AudioPlayer::play_time, in microseconds
play_time_us(a) == a.pos * AudioQuantumMs * 1000
\* AudioPlayer::has_finished: sink.empty()
has_finished(a) == ~a.playing

(* ------------------- update_osu: the Playing branch -------------------- *)
\* the beatmap has finished (lines 370-372)
BeatmapFinished_IgnoreAudio(b, bs, a) ==
    /\ bs.active_hit_objects = <<>>
    /\ bs.next_hit_object_idx >= Len(b.hit_objects)

BeatmapFinished(b, bs, a) ==
    /\ bs.active_hit_objects = <<>>
    /\ bs.next_hit_object_idx >= Len(b.hit_objects)
    /\ has_finished(a)

BeatmapFailed_Negative(bs) == bs.health < 0

\* the beatmap has failed (line 377)
BeatmapFailed(bs) == bs.health <= 0

\* no hitcircle of the queue is found expired
ExpiredCount_None(q, c) == 0

\* take_while(|entity| hitcircles.get(entity) is Err).count()
RECURSIVE ExpiredCount(_, _)
ExpiredCount(q, c) ==
    IF q = <<>> THEN 0
    ELSE IF c[Head(q)] = Absent THEN 1 + ExpiredCount(Tail(q), c)
    ELSE 0

\* the forced Miss takes health only while another hitcircle waits in the queue
RECURSIVE ExpireLoop_QueueDependent(_, _, _)
ExpireLoop_QueueDependent(b, bs, k) ==
    IF k = 0 THEN bs
    ELSE ExpireLoop_QueueDependent(b,
                    [bs EXCEPT !.active_hit_objects = Tail(@),
                               !.combo = 0,
                               !.health = IF Len(bs.active_hit_objects) > 1
                                          THEN HpDrain(b.hp, @, "Miss") ELSE @],
                    k - 1)

\* for _ in 0..expired_hitcircles_count { pop_front; combo = 0; health = drain(Miss) }
RECURSIVE ExpireLoop(_, _, _)
ExpireLoop(b, bs, k) ==
    IF k = 0 THEN bs
    ELSE ExpireLoop(b,
                    [bs EXCEPT !.active_hit_objects = Tail(@),
                               !.combo = 0,
                               !.health = HpDrain(b.hp, @, "Miss")],
                    k - 1)

ExpireStep_KeepCombo(b, bs, c) ==
    LET k == ExpiredCount(bs.active_hit_objects, c)
    IN  [ExpireLoop(b, [bs EXCEPT !.misses = @ + k], k) EXCEPT !.combo = bs.combo]

\* remove expired hitcircles (lines 382-400)
ExpireStep(b, bs, c) ==
    LET k == ExpiredCount(bs.active_hit_objects, c)
    IN  ExpireLoop(b, [bs EXCEPT !.misses = @ + k], k)

\* the next hit object exists and threshold.as_millis() >= next_hitobject.time()
SpawnDue(b, bs, a) ==
    /\ bs.next_hit_object_idx < Len(b.hit_objects)
    /\ (play_time_us(a) + to_mc_duration_us(b.ar)) \div 1000
          >= b.hit_objects[bs.next_hit_object_idx + 1]

SpawnStep_PushFront(b, bs, a) ==
    IF bs.next_hit_object_idx < Len(b.hit_objects)
    THEN LET bs1 == [bs EXCEPT !.play_time_us = play_time_us(a)]
         IN  IF SpawnDue(b, bs, a) /\ HitcircleFromBeatmapOk(b)
             THEN [bs1 EXCEPT !.active_hit_objects = <<bs.next_hit_object_idx + 1>> \o @,
                              !.next_hit_object_idx = @ + 1]
             ELSE bs1
    ELSE bs

\* spawn the next hitcircle when it is due (lines 402-455)
SpawnStep(b, bs, a) ==
    IF bs.next_hit_object_idx < Len(b.hit_objects)
    THEN LET bs1 == [bs EXCEPT !.play_time_us = play_time_us(a)]
         IN  IF SpawnDue(b, bs, a) /\ HitcircleFromBeatmapOk(b)
             THEN [bs1 EXCEPT !.active_hit_objects = Append(@, bs.next_hit_object_idx + 1),
                              !.next_hit_object_idx = @ + 1]
             ELSE bs1
    ELSE bs

ApplyHit_MissKeepsCombo(b, bs, hit) ==
    [bs EXCEPT
        !.score   = @ + ScoreIncrement(b, bs.combo, hit),
        !.hits300 = IF hit = "Hit300" THEN @ + 1 ELSE @,
        !.hits100 = IF hit = "Hit100" THEN @ + 1 ELSE @,
        !.hits50  = IF hit = "Hit50"  THEN @ + 1 ELSE @,
        !.misses  = IF hit = "Miss"   THEN @ + 1 ELSE @,
        !.combo   = IF hit = "Miss" THEN @ ELSE @ + 1,
        !.max_combo = IF hit = "Miss" THEN @ ELSE Max(@, bs.combo + 1),
        !.health  = HpDrain(b.hp, @, hit),
        !.active_hit_objects = IF @ = <<>> THEN @ ELSE Tail(@)]

\* one hit on the hitcircle (lines 470-516)
ApplyHit(b, bs, hit) ==
    [bs EXCEPT
        !.score   = @ + ScoreIncrement(b, bs.combo, hit),
        !.hits300 = IF hit = "Hit300" THEN @ + 1 ELSE @,
        !.hits100 = IF hit = "Hit100" THEN @ + 1 ELSE @,
        !.hits50  = IF hit = "Hit50"  THEN @ + 1 ELSE @,
        !.misses  = IF hit = "Miss"   THEN @ + 1 ELSE @,
        !.combo   = IF hit = "Miss" THEN 0 ELSE @ + 1,
        !.max_combo = IF hit = "Miss" THEN @ ELSE Max(@, bs.combo + 1),
        !.health  = HpDrain(b.hp, @, hit),
        !.active_hit_objects = IF @ = <<>> THEN @ ELSE Tail(@)]

\* the loop over the click events of the tick (lines 459-519); entity is the
\* front of the queue when the loop starts, ticks what its Hitcircle holds
\* (Absent when the entity has no Hitcircle component yet or any more).
\* The result is the beatmap state and the log of the judgements made.
RECURSIVE ClickLoop(_, _, _, _, _, _)
ClickLoop(b, bs, events, entity, ticks, log) ==
    IF events = <<>> THEN [bs |-> bs, log |-> log]
    ELSE LET hit == IF ticks = Absent THEN "None"
                    ELSE Hitcircle_hit_score(b, Head(events), ticks)
         IN  IF hit = "None"
             THEN ClickLoop(b, bs, Tail(events), entity, ticks, log)
             ELSE ClickLoop(b, ApplyHit(b, bs, hit), Tail(events), entity, ticks,
                            Append(log, [ target |-> entity,
                                          head |-> IF bs.active_hit_objects = <<>> THEN 0
                                                   ELSE Head(bs.active_hit_objects),
                                          ticks_left |-> ticks,
                                          hit |-> hit ]))

ClickStep_AimIgnored(b, bs, events, seen) ==
    IF bs.active_hit_objects = <<>> THEN [bs |-> bs, log |-> <<>>]
    ELSE LET entity == Head(bs.active_hit_objects)
         IN  ClickLoop(b, bs, [i \in DOMAIN events |-> TRUE], entity, seen[entity], <<>>)

\* check hitcircle hit (lines 457-520)
ClickStep(b, bs, events, seen) ==
    IF bs.active_hit_objects = <<>> THEN [bs |-> bs, log |-> <<>>]
    ELSE LET entity == Head(bs.active_hit_objects)
         IN  ClickLoop(b, bs, events, entity, seen[entity], <<>>)

\* the Playing branch when the beatmap is neither finished nor failed
\* (lines 381-545): expire, spawn, clicks.  seen holds the ticks update_osu
\* reads from the Hitcircle components.
PlayStep(b, bs, c, a, events, seen) ==
    LET bs1 == ExpireStep(b, bs, c)
        bs2 == SpawnStep(b, bs1, a)
        r   == ClickStep(b, bs2, events, seen)
    IN  [ bs |-> r.bs,
          log |-> r.log,
          expired |-> SubSeq(bs.active_hit_objects, 1, ExpiredCount(bs.active_hit_objects, c)),
          due |-> SpawnDue(b, bs1, a),
          spawned |-> IF bs2.next_hit_object_idx > bs1.next_hit_object_idx
                      THEN bs2.next_hit_object_idx ELSE 0 ]

(* ----------------------- hitcircle.rs: lifetime ------------------------ *)
\* update_hitcircle: a hitcircle with ticks = 0 is marked Despawned (it is
\* removed when the tick ends), any other loses one tick
update_hitcircle(c) == [e \in Entities |-> IF c[e] > 0 THEN c[e] - 1 ELSE c[e]]

\* the hitcircle entities when the tick ends: the commands of the tick have
\* been applied (the spawned hitcircle exists, the entities marked Despawned
\* by update_osu or update_hitcircle are gone)
EndOfTick(c, b, spawned, despawned) ==
    [e \in Entities |->
        IF e = spawned THEN CircleTicks(b)
        ELSE IF e \in despawned \/ c[e] = 0 THEN Absent
        ELSE update_hitcircle(c)[e]]

(* ---------------------- osu.rs: Osu::change_state ---------------------- *)
PrePlayingTicks_NoDefault(b) ==
    IF Len(b.hit_objects) = 0 THEN 0
    ELSE Max((3000 - b.hit_objects[1]) \div (1000 \div 20), 0)

\* the first objects's time decides the ticks of PrePlaying (lines 148-154)
PrePlayingTicks(b) ==
    IF Len(b.hit_objects) = 0 THEN 60
    ELSE Max((3000 - b.hit_objects[1]) \div (1000 \div 20), 0)

\* change_state(BeatmapSelection(data)) (lines 103, 131-141): the result is
\* the new state, audio player and beatmap_selection_data; st and sel are kept
\* when set_music fails
ToBeatmapSelection(st, a, sel, has_audio, music_ok) ==
    IF has_audio /\ ~music_ok
    THEN [state |-> st, audio |-> AudioStop(a), sel |-> sel, ok |-> FALSE]
    ELSE [state |-> "BeatmapSelection",
          audio |-> IF has_audio THEN AudioSetMusicPlay(a) ELSE AudioStop(a),
          sel |-> TRUE, ok |-> TRUE]

\* go_to_beatmap_selection (lines 104-125) of change_state(ScoreDisplay) and
\* change_state(Failed): beatmap_selection_data is taken
GoToBeatmapSelection(st, a, sel, has_audio, music_ok) ==
    IF sel THEN ToBeatmapSelection(st, a, FALSE, has_audio, music_ok)
    ELSE [state |-> "SongSelection", audio |-> AudioStop(a), sel |-> FALSE, ok |-> TRUE]

\* what a step leaves of the attempt when it ends in the state st
Attempt(st, b, bs, c, j) ==
    IF st \in {"PrePlaying", "Playing"}
    THEN [beatmap |-> b, bstate |-> bs, circles |-> c, judgements |-> j]
    ELSE [beatmap |-> NoBeatmap, bstate |-> DefaultBeatmapState,
          circles |-> NoCircles, judgements |-> NoJudgements]

SetAttempt(at) ==
    /\ beatmap' = at.beatmap
    /\ bstate' = at.bstate
    /\ circles' = at.circles
    /\ judgements' = at.judgements

(* ------------------------ one tick of the server ----------------------- *)
\* the click events of a tick, each one on the hitcircle (TRUE) or off it
\* (FALSE): up to MaxClicks clicks on the hitcircle, and clicks off it alone
\* and before a click on it
ClickEvents ==
    {[i \in 1..n |-> TRUE] : n \in 0..MaxClicks} \cup {<<FALSE>>, <<FALSE, TRUE>>}

RECURSIVE Judged(_, _, _)
\* the history of judgements after the expiries exp and the log of a tick
Judged(j, exp, log) ==
    IF exp # <<>>
    THEN Judged([j EXCEPT ![Head(exp)] = Append(@, "Expired")], Tail(exp), log)
    ELSE IF log # <<>>
    THEN Judged([j EXCEPT ![Head(log).target] = Append(@, Head(log).hit)], exp, Tail(log))
    ELSE j

\* update_osu from None: the first state is SongSelection (line 319)
TickNone ==
    /\ state = "None"
    /\ state' = "SongSelection"
    /\ audio' = AudioStop(audio)
    /\ last' = Step("tick", "SongSelection")
    /\ UNCHANGED <<ticks_left, beatmap, bstate, circles, beatmap_selection_data,
                   inventory_loaded, judgements>>

\* update_osu in SongSelection and BeatmapSelection: no state change
TickIdle ==
    /\ state \in {"SongSelection", "BeatmapSelection"}
    /\ last' = Step("tick", "none")
    /\ UNCHANGED <<state, ticks_left, beatmap, bstate, circles, audio,
                   beatmap_selection_data, inventory_loaded, judgements>>

TickPrePlaying_NoCountdown(music_ok) ==
    /\ state = "PrePlaying"
    /\ state' = IF music_ok THEN "Playing" ELSE state
    /\ audio' = IF music_ok THEN AudioSetMusicPlay(audio) ELSE AudioStop(audio)
    /\ ticks_left' = ticks_left
    /\ last' = [Step("tick", "Playing") EXCEPT !.ok = music_ok]
    /\ UNCHANGED <<beatmap, bstate, circles, beatmap_selection_data,
                   inventory_loaded, judgements>>

\* update_osu in PrePlaying (lines 353-367) and change_state(Playing) (161-167)
TickPrePlaying(music_ok) ==
    /\ state = "PrePlaying"
    /\ IF ticks_left = 0
       THEN /\ state' = IF music_ok THEN "Playing" ELSE state
            /\ audio' = IF music_ok THEN AudioSetMusicPlay(audio) ELSE AudioStop(audio)
            /\ ticks_left' = ticks_left
            /\ last' = [Step("tick", "Playing") EXCEPT !.ok = music_ok,
                                                       !.aborted = last.aborted]
       ELSE /\ ticks_left' = ticks_left - 1
            /\ last' = [Step("tick", "none") EXCEPT !.aborted = last.aborted]
            /\ UNCHANGED <<state, audio>>
    /\ UNCHANGED <<beatmap, bstate, circles, beatmap_selection_data,
                   inventory_loaded, judgements>>

\* update_osu in Playing, the beatmap has finished or failed (lines 368-379),
\* and change_state(ScoreDisplay), change_state(Failed) (lines 168-175), the
\* first with Beatmap::score_text; update_hitcircle runs in the same tick
TickEnd(has_audio, music_ok) ==
    /\ state = "Playing"
    /\ BeatmapFinished(beatmap, bstate, audio) \/ BeatmapFailed(bstate)
    /\ LET change == IF BeatmapFinished(beatmap, bstate, audio) THEN "ScoreDisplay" ELSE "Failed"
           r == GoToBeatmapSelection(state, audio, beatmap_selection_data, has_audio, music_ok)
       IN  /\ state' = r.state
           /\ audio' = r.audio
           /\ beatmap_selection_data' = r.sel
           /\ SetAttempt(Attempt(r.state, beatmap, bstate,
                                 EndOfTick(circles, beatmap, 0, {}), judgements))
           /\ last' = IF change = "ScoreDisplay"
                      THEN [Step("tick", change) EXCEPT !.ok = r.ok,
                                                        !.accuracy = accuracy(bstate),
                                                        !.grade = grade(bstate)]
                      ELSE [Step("tick", change) EXCEPT !.ok = r.ok]
    /\ UNCHANGED <<ticks_left, inventory_loaded>>

\* update_osu in Playing, the beatmap is playing (lines 380-545), together
\* with update_hitcircle, which the schedule runs before or after it
TickPlay(osu_first, events) ==
    /\ state = "Playing"
    /\ ~BeatmapFinished(beatmap, bstate, audio)
    /\ ~BeatmapFailed(bstate)
    /\ \E r \in {PlayStep(beatmap, bstate, circles, audio, events,
                          IF osu_first THEN circles ELSE update_hitcircle(circles))} :
           /\ bstate' = r.bs
           /\ circles' = EndOfTick(circles, beatmap, r.spawned,
                                   {r.log[i].target : i \in 1..Len(r.log)})
           /\ judgements' = Judged(judgements, r.expired, r.log)
           /\ last' = [Step("play", "none") EXCEPT
                          !.expired = Len(r.expired),
                          !.spawned = r.spawned, !.due = r.due,
                          !.spawn_failed = r.due /\ r.spawned = 0,
                          !.judged = r.log, !.events = events]
    /\ UNCHANGED <<state, ticks_left, beatmap, audio, beatmap_selection_data, inventory_loaded>>

(* --------------------------- the audio thread -------------------------- *)
\* the sink plays on: the clock advances, and the sink is empty after the end
AudioAdvance ==
    /\ audio.playing
    /\ audio' = IF audio.pos < AudioSteps THEN [audio EXCEPT !.pos = @ + 1]
                ELSE [audio EXCEPT !.playing = FALSE]
    /\ last' = Step("audio", "none")
    /\ UNCHANGED <<state, ticks_left, beatmap, bstate, circles, beatmap_selection_data,
                   inventory_loaded, judgements>>

(* ------------------------- the click handlers -------------------------- *)
\* handle_song_selection_clicks: a song is selected, its beatmaps are loaded
SongClick(has_audio, music_ok) ==
    /\ state # "None"
    /\ LET r == ToBeatmapSelection(state, audio, beatmap_selection_data, has_audio, music_ok)
       IN  /\ state' = r.state
           /\ audio' = r.audio
           /\ beatmap_selection_data' = r.sel
           /\ SetAttempt(Attempt(r.state, beatmap, bstate, circles, judgements))
           /\ last' = [Step("song_click", "BeatmapSelection") EXCEPT !.ok = r.ok]
    /\ inventory_loaded' = TRUE
    /\ UNCHANGED ticks_left

\* handle_beatmap_selection_clicks: return to the song selection
BackClick ==
    /\ inventory_loaded
    /\ state' = "SongSelection"
    /\ audio' = AudioStop(audio)
    /\ SetAttempt(Attempt("SongSelection", beatmap, bstate, circles, judgements))
    /\ last' = Step("back_click", "SongSelection")
    /\ UNCHANGED <<ticks_left, beatmap_selection_data, inventory_loaded>>

\* the selected beatmap takes over the state of the attempt it replaces
BeatmapClick_KeepState(b, load_ok) ==
    /\ inventory_loaded
    /\ audio' = AudioStop(audio)
    /\ IF load_ok
       THEN /\ state' = "PrePlaying"
            /\ ticks_left' = PrePlayingTicks(b)
            /\ SetAttempt(Attempt("PrePlaying", b, bstate, NoCircles, NoJudgements))
            /\ last' = [Step("beatmap_click", "PrePlaying") EXCEPT
                           !.aborted = state = "Playing" /\ JudgedCount(bstate) > 0]
       ELSE /\ last' = [Step("beatmap_click", "PrePlaying") EXCEPT !.ok = FALSE]
            /\ UNCHANGED <<state, ticks_left, beatmap, bstate, circles, judgements>>
    /\ UNCHANGED <<beatmap_selection_data, inventory_loaded>>

\* handle_beatmap_selection_clicks: a beatmap is selected;
\* change_state(PrePlaying) (lines 103, 142-160), load_ok = the file is read,
\* parsed and Beatmap::try_from succeeds
BeatmapClick(b, load_ok) ==
    /\ inventory_loaded
    /\ audio' = AudioStop(audio)
    /\ IF load_ok
       THEN /\ state' = "PrePlaying"
            /\ ticks_left' = PrePlayingTicks(b)
            /\ SetAttempt(Attempt("PrePlaying", b, DefaultBeatmapState, NoCircles, NoJudgements))
            /\ last' = [Step("beatmap_click", "PrePlaying") EXCEPT
                           !.aborted = state = "Playing" /\ JudgedCount(bstate) > 0]
       ELSE /\ last' = [Step("beatmap_click", "PrePlaying") EXCEPT !.ok = FALSE]
            /\ UNCHANGED <<state, ticks_left, beatmap, bstate, circles, judgements>>
    /\ UNCHANGED <<beatmap_selection_data, inventory_loaded>>

\* set_music is called, and can fail, only for a song that has an audio file;
\* a load that fails gives no beatmap
Next ==
    \/ TickNone
    \/ TickIdle
    \/ \E music_ok \in BOOLEAN : TickPrePlaying(music_ok)
    \/ \E music_ok \in BOOLEAN : TickEnd(TRUE, music_ok)
    \/ TickEnd(FALSE, TRUE)
    \/ \E osu_first \in BOOLEAN, events \in ClickEvents : TickPlay(osu_first, events)
    \/ AudioAdvance
    \/ \E music_ok \in BOOLEAN : SongClick(TRUE, music_ok)
    \/ SongClick(FALSE, TRUE)
    \/ BackClick
    \/ \E b \in Beatmaps : BeatmapClick(b, TRUE)
    \/ BeatmapClick(NoBeatmap, FALSE)

Spec == Init /\ [][Next]_vars

TypeOK ==
    /\ state \in {"None", "SongSelection", "BeatmapSelection", "PrePlaying", "Playing"}
    /\ ticks_left \in 0..60
    /\ beatmap \in Beatmaps \cup {NoBeatmap}
    /\ circles \in [Entities -> Absent..30]
    /\ audio \in [playing : BOOLEAN, pos : 0..AudioSteps]

(* ------------- the score keeping, fed a sequence of judgements --------- *)
\* an attempt that has just started: change_state(Playing(beatmap)) with the
\* beatmap of Beatmap::try_from, whose state is BeatmapState::default
InitScore ==
    /\ state = "Playing"
    /\ ticks_left = 0
    /\ beatmap \in {b \in Beatmaps : b.hit_objects # <<>>}
    /\ bstate = DefaultBeatmapState
    /\ circles = NoCircles
    /\ audio = [playing |-> TRUE, pos |-> 0]
    /\ beatmap_selection_data = TRUE
    /\ inventory_loaded = TRUE
    /\ judgements = NoJudgements
    /\ last = Step("init", "none")

\* the body of a judged click event (lines 470-516)
JudgeHit(hit) ==
    /\ JudgedCount(bstate) < MaxJudgements
    /\ bstate' = ApplyHit(beatmap, bstate, hit)
    /\ last' = [Step("judge", "none") EXCEPT !.judged =
                   <<[target |-> 0, head |-> 0, ticks_left |-> 0, hit |-> hit]>>]
    /\ UNCHANGED <<state, ticks_left, beatmap, circles, audio, beatmap_selection_data,
                   inventory_loaded, judgements>>

NextScore == \E hit \in {"Hit300", "Hit100", "Hit50", "Miss"} : JudgeHit(hit)

ScoreSpec == InitScore /\ [][NextScore]_vars

(* --------------- accuracy and grade of a beatmap state ----------------- *)
\* the judgement counts of test::beatmap_state_accuracy
TestCounts == [hits300 |-> 438, hits100 |-> 9, hits50 |-> 1, misses |-> 0]

\* a beatmap state built from its counts, the rest default, as the test
\* builds it
InitGrade ==
    /\ state = "Playing"
    /\ ticks_left = 0
    /\ beatmap = CHOOSE b \in Beatmaps : b.hit_objects # <<>>
    /\ \E c \in [hits300 : 0..(4 * MaxCount), hits100 : 0..MaxCount,
                  hits50 : 0..MaxCount, misses : 0..MaxCount] \cup {TestCounts} :
          bstate = [DefaultBeatmapState EXCEPT !.hits300 = c.hits300, !.hits100 = c.hits100,
                                               !.hits50 = c.hits50, !.misses = c.misses]
    /\ circles = NoCircles
    /\ audio = [playing |-> FALSE, pos |-> 0]
    /\ beatmap_selection_data = TRUE
    /\ inventory_loaded = TRUE
    /\ judgements = NoJudgements
    /\ last = Step("init", "none")

\* Beatmap::score_text: the accuracy and the grade of the beatmap state
ScoreText ==
    /\ last.kind = "init"
    /\ last' = [Step("score_text", "none") EXCEPT !.accuracy = accuracy(bstate),
                                                  !.grade = grade(bstate)]
    /\ UNCHANGED <<state, ticks_left, beatmap, bstate, circles, audio,
                   beatmap_selection_data, inventory_loaded, judgements>>

NextGrade == ScoreText

GradeSpec == InitGrade /\ [][NextGrade]_vars

(* ------------- the difficulty settings and what follows from them ------ *)
\* hit object times of the beatmaps given to the difficulty functions: none,
\* one (no drain time), two over 2 s and two over 16 s
DrainLists == {<<>>, <<1000>>, <<1000, 3000>>, <<0, 16000>>}

\* a BeatmapData with one difficulty value anywhere in its range and the other
\* three at 5.0, and a beatmap state with some health
InitDifficulty ==
    /\ state = "Playing"
    /\ ticks_left = 0
    /\ \E field \in {"od", "ar", "cs", "hp"}, v \in 0..DifficultyMax, objs \in DrainLists :
          beatmap = [[od |-> 50, ar |-> 50, cs |-> 50, hp |-> 50, hit_objects |-> objs]
                        EXCEPT ![field] = v]
    /\ \E h \in {20, 500, HealthFull} : bstate = [DefaultBeatmapState EXCEPT !.health = h]
    /\ circles = NoCircles
    /\ audio = [playing |-> FALSE, pos |-> 0]
    /\ beatmap_selection_data = TRUE
    /\ inventory_loaded = TRUE
    /\ judgements = NoJudgements
    /\ last = Step("init", "none")

\* a function of the difficulty has been applied: last holds its name, its
\* arguments beside the beatmap and its result
Applied(kind, arg, result) ==
    /\ last.kind = "init"
    /\ last' = [kind |-> kind, arg |-> arg, result |-> result]
    /\ UNCHANGED <<state, ticks_left, beatmap, bstate, circles, audio,
                   beatmap_selection_data, inventory_loaded, judgements>>

\* Hitwindow::from(od) and HitwindowTicks::from(&hitwindow, tps)
ApplyHitwindow(tps) ==
    Applied("hitwindow", tps,
            [ms    |-> HitwindowFrom(beatmap.od),
             ticks |-> HitwindowTicksFrom(HitwindowFrom(beatmap.od), tps)])

\* ApproachRate::to_preempt_duration, to_fade_in_duration and to_mc_duration
ApplyApproachRate ==
    Applied("approach_rate", 0,
            [preempt |-> to_preempt_duration(beatmap.ar),
             fade_in |-> to_fade_in_duration(beatmap.ar),
             mc_us   |-> to_mc_duration_us(beatmap.ar)])

\* HitcircleRadius::from(cs, scale).circle, scale in tenths
ApplyRadius(scale) ==
    Applied("radius", scale, HitcircleRadiusFrom(beatmap.cs, scale))

\* BeatmapData::difficulty_multiplier
ApplyDifficultyMultiplier ==
    Applied("difficulty_multiplier", 0, difficulty_multiplier(beatmap))

\* HpDrainRate::drain(health, hit)
ApplyDrain(hit) ==
    Applied("drain", hit, HpDrain(beatmap.hp, bstate.health, hit))

\* HitwindowTicks::hit_score(ticks) with the windows of the beatmap at
\* the tick rate of the server: the windows, the lower ends hit_time - window
\* of the three ranges as u32, and the judgement
ApplyHitScore(ticks) ==
    LET w == HitwindowTicksFrom(HitwindowFrom(beatmap.od), TPS)
    IN  Applied("hit_score", ticks,
                [windows |-> w,
                 low     |-> [window_300 |-> U32Sub(w.window_50, w.window_300),
                              window_100 |-> U32Sub(w.window_50, w.window_100),
                              window_50  |-> U32Sub(w.window_50, w.window_50)],
                 hit     |-> HitwindowTicks_hit_score(w, ticks)])

NextDifficulty ==
    \/ \E tps \in 1..MaxTps : ApplyHitwindow(tps)
    \/ \E ticks \in 0..(2 * HitwindowTicksFrom(HitwindowFrom(beatmap.od), TPS).window_50 + 1) :
          ApplyHitScore(ticks)
    \/ ApplyApproachRate
    \/ \E scale \in {ScaleTenths, 10} : ApplyRadius(scale)
    \/ ApplyDifficultyMultiplier
    \/ \E hit \in {"Hit300", "Hit100", "Hit50", "Miss"} : ApplyDrain(hit)

DifficultySpec == InitDifficulty /\ [][NextDifficulty]_vars

(* ------------------- beatmap.rs: Beatmap::try_from --------------------- *)
\* a field of the [Difficulty] section that the file does not have (None)
Missing == -1

\* the times of the hit objects of a file as written, in milliseconds; a
\* negative time does not parse as u32
FileTimes == {1000, 2000, -500}

\* the parsed OsuFile: the four difficulty fields (tenths, or Missing), audio =
\* audio_path_from finds the audio file, times = the [HitObjects] in file order
OsuFiles ==
    { [od |-> od, cs |-> cs, ar |-> ar, hp |-> hp, audio |-> a, times |-> t] :
        od \in {Missing, 50}, cs \in {Missing, 50}, ar \in {Missing, 50}, hp \in {Missing, 50},
        a \in BOOLEAN,
        t \in UNION {[1..n -> FileTimes] : n \in 0..MaxObjects} }

\* HitObject::from: the hit objects in file order; Err when a time does not
\* parse
HitObjectFrom(f) ==
    IF \E i \in 1..Len(f.times) : f.times[i] < 0
    THEN [ok |-> FALSE, hit_objects |-> <<>>]
    ELSE [ok |-> TRUE, hit_objects |-> f.times]

\* Beatmap::try_from: Err without the audio file, without one of the four
\* difficulty fields, and when HitObject::from fails
try_from(f) ==
    IF \/ ~f.audio
       \/ f.od = Missing \/ f.cs = Missing \/ f.ar = Missing \/ f.hp = Missing
       \/ ~HitObjectFrom(f).ok
    THEN [ok |-> FALSE, beatmap |-> NoBeatmap]
    ELSE [ok |-> TRUE,
          beatmap |-> [od |-> f.od, ar |-> f.ar, cs |-> f.cs, hp |-> f.hp,
                       hit_objects |-> HitObjectFrom(f).hit_objects]]

\* a file has been read and parsed
InitLoad ==
    /\ state = "BeatmapSelection"
    /\ ticks_left = 0
    /\ beatmap = NoBeatmap
    /\ bstate = DefaultBeatmapState
    /\ circles = NoCircles
    /\ audio = [playing |-> FALSE, pos |-> 0]
    /\ beatmap_selection_data = TRUE
    /\ inventory_loaded = TRUE
    /\ judgements = NoJudgements
    /\ \E f \in OsuFiles : last = [kind |-> "file", file |-> f, ok |-> TRUE]

\* Beatmap::try_from(osu_file, beatmap_dir)
TryFrom ==
    /\ last.kind = "file"
    /\ beatmap' = try_from(last.file).beatmap
    /\ last' = [kind |-> "try_from", file |-> last.file, ok |-> try_from(last.file).ok]
    /\ UNCHANGED <<state, ticks_left, bstate, circles, audio,
                   beatmap_selection_data, inventory_loaded, judgements>>

NextLoad == TryFrom

LoadSpec == InitLoad /\ [][NextLoad]_vars

(* ---------------------- hit_object.rs: HitObject::z -------------------- *)
OVERLAP_THRESHOLD_MS == 1200

\* HitObject::intersect: sqrt(dx^2 + dy^2) < 2 * radius, with the radius of
\* scale 1.0; the comparison is made on the squares
intersect(self, other, cs) ==
    LET radius == HitcircleRadiusFrom(cs, 10)
        dx == Abs(self.x - other.x)
        dy == Abs(self.y - other.y)
    IN  radius > 0 /\ dx * dx + dy * dy < 4 * radius * radius

\* the position in remaining of what take_while(time < self.time + threshold)
\* .enumerate().find(intersect) returns, 0 for None
FirstOverlapping(self, remaining, cs) ==
    LET found == { i \in 1..Len(remaining) :
                     /\ \A j \in 1..i : remaining[j].time < self.time + OVERLAP_THRESHOLD_MS
                     /\ intersect(self, remaining[i], cs) }
    IN  IF found = {} THEN 0 ELSE CHOOSE i \in found : \A k \in found : i <= k

\* the window of take_while left out: every remaining hit object is looked at
RECURSIVE z_NoThreshold(_, _, _)
z_NoThreshold(self, remaining, cs) ==
    LET found == { i \in 1..Len(remaining) : intersect(self, remaining[i], cs) }
        idx   == IF found = {} THEN 0 ELSE CHOOSE i \in found : \A k \in found : i <= k
    IN  IF idx = 0 THEN 0
        ELSE z_NoThreshold(remaining[idx], SubSeq(remaining, idx + 1, Len(remaining)), cs) - 1

\* HitObject::z(&self, remaining, cs)
RECURSIVE z(_, _, _)
z(self, remaining, cs) ==
    LET idx == FirstOverlapping(self, remaining, cs)
    IN  IF idx = 0 THEN 0
        ELSE z(remaining[idx], SubSeq(remaining, idx + 1, Len(remaining)), cs) - 1

\* the circle size of test::hitobject_z and its radius at scale 1.0
TestCs == 50
TestRadius == HitcircleRadiusFrom(TestCs, 10)

\* the positions of the hit objects given to z: on the x axis at multiples
\* of the radius, as in test::hitobject_z, and one off the axis
Positions ==
    { [x |-> k * TestRadius, y |-> 0] : k \in 0..4 } \cup { [x |-> TestRadius, y |-> TestRadius] }

\* the times of the hit objects given to z, in chronological order: at the
\* start and one overlap threshold later
SortedTimes(n) ==
    { t \in [1..n -> {0, OVERLAP_THRESHOLD_MS}] : \A i \in 1..(n - 1) : t[i] <= t[i + 1] }

\* BeatmapData.hit_objects with positions: the hit objects at the positions p
\* and the times t
MkHitObjects(p, t) ==
    [i \in 1..Len(p) |-> [x |-> p[i].x, y |-> p[i].y, time |-> t[i]]]

InitDepth ==
    /\ state = "Playing"
    /\ ticks_left = 0
    /\ \E n \in 0..MaxDepthObjects :
          \E p \in [1..n -> Positions], t \in SortedTimes(n) :
              beatmap = [od |-> 50, ar |-> 50, cs |-> TestCs, hp |-> 50,
                         hit_objects |-> MkHitObjects(p, t)]
    /\ bstate = DefaultBeatmapState
    /\ circles = NoCircles
    /\ audio = [playing |-> TRUE, pos |-> 0]
    /\ beatmap_selection_data = TRUE
    /\ inventory_loaded = TRUE
    /\ judgements = NoJudgements
    /\ last = Step("init", "none")

\* the z offset that update_osu gives each hit object when it spawns it
\* (lines 417-420): z of the hit object and the hit objects after it
SpawnDepths ==
    /\ last.kind = "init"
    /\ LET objs == beatmap.hit_objects
           n    == Len(objs)
       IN  last' = [kind |-> "z",
                    result |-> [i \in 1..n |-> z(objs[i], SubSeq(objs, i + 1, n), beatmap.cs)]]
    /\ UNCHANGED <<state, ticks_left, beatmap, bstate, circles, audio,
                   beatmap_selection_data, inventory_loaded, judgements>>

NextDepth == SpawnDepths

DepthSpec == InitDepth /\ [][NextDepth]_vars

(* ------------- one attempt of a beatmap with a single object ----------- *)
\* a BeatmapData with one hit object at time 0, AR 9, OD 8 and CS 4.5
SingleObjectBeatmap ==
    [od |-> 80, ar |-> 90, cs |-> 45, hp |-> 50, hit_objects |-> <<0>>]

\* the beatmap has just been selected: change_state(PrePlaying) has loaded it
\* (lines 103, 142-160)
InitSingle ==
    /\ state = "PrePlaying"
    /\ ticks_left = PrePlayingTicks(SingleObjectBeatmap)
    /\ beatmap = SingleObjectBeatmap
    /\ bstate = DefaultBeatmapState
    /\ circles = NoCircles
    /\ audio = [playing |-> FALSE, pos |-> 0]
    /\ beatmap_selection_data = TRUE
    /\ inventory_loaded = TRUE
    /\ judgements = NoJudgements
    /\ last = Step("beatmap_click", "PrePlaying")

\* the ticks of the server and the audio thread, without the click handlers
\* of the selection inventories
NextSingle ==
    \/ TickIdle
    \/ \E music_ok \in BOOLEAN : TickPrePlaying(music_ok)
    \/ \E music_ok \in BOOLEAN : TickEnd(TRUE, music_ok)
    \/ TickEnd(FALSE, TRUE)
    \/ \E osu_first \in BOOLEAN, events \in ClickEvents : TickPlay(osu_first, events)
    \/ AudioAdvance

SingleSpec == InitSingle /\ [][NextSingle]_vars

(* -------- attempts under a schedule that keeps ticking and playing ----- *)
\* beatmaps whose hitcircles can be constructed and whose last hit object is
\* not later than the end of the track: the one with a single hit object,
\* which an attempt survives whatever is missed, and the one whose HP drain
\* ends an attempt on the first miss
LiveBeatmaps ==
    {SingleObjectBeatmap}
        \cup {b \in Beatmaps : HitcircleFromBeatmapOk(b) /\ 2 * b.hp >= HealthFull}

\* one of them has just been selected: change_state(PrePlaying) has loaded it
InitLive ==
    /\ state = "PrePlaying"
    /\ beatmap \in LiveBeatmaps
    /\ ticks_left = PrePlayingTicks(beatmap)
    /\ bstate = DefaultBeatmapState
    /\ circles = NoCircles
    /\ audio = [playing |-> FALSE, pos |-> 0]
    /\ beatmap_selection_data = TRUE
    /\ inventory_loaded = TRUE
    /\ judgements = NoJudgements
    /\ last = Step("beatmap_click", "PrePlaying")

\* update_osu, which the server runs in every tick, with update_hitcircle
Tick ==
    \/ TickIdle
    \/ \E music_ok \in BOOLEAN : TickPrePlaying(music_ok)
    \/ \E music_ok \in BOOLEAN : TickEnd(TRUE, music_ok)
    \/ TickEnd(FALSE, TRUE)
    \/ \E osu_first \in BOOLEAN, events \in ClickEvents : TickPlay(osu_first, events)

NextLive == Tick \/ AudioAdvance

\* the server keeps ticking, and the sink keeps playing the track to its end
LiveSpec ==
    InitLive /\ [][NextLive]_vars /\ WF_vars(Tick) /\ WF_vars(AudioAdvance)

(* ------------- song_selection.rs: SongSelectionInventory --------------- *)
PREVIOUS_PAGE_SLOT == 45
NEXT_PAGE_SLOT == 53
PAGE_SIZE == 36

\* the largest usize; the largest integer of the checker stands for it
UsizeMax == 2147483647

\* SongSelectionInventory::max_page: (songs.len() - 1) / PAGE_SIZE in usize.
\* With no songs the subtraction overflows: a build with overflow checks
\* panics, one without wraps to the largest usize
max_page_panics(inv) == inv.songs = 0 /\ inv.overflow_checks

max_page(inv) ==
    IF inv.songs = 0 THEN UsizeMax \div PAGE_SIZE ELSE (inv.songs - 1) \div PAGE_SIZE

has_next_page(inv) == inv.cur_page < max_page(inv)
has_previous_page(inv) == inv.cur_page # 0

\* SongSelectionInventory::page_song_paths: &songs[start_idx..end_idx], which
\* panics when start_idx > end_idx
page_song_paths(inv) ==
    LET start_idx == inv.cur_page * PAGE_SIZE
    IN  [start_idx |-> start_idx, end_idx |-> Min(start_idx + PAGE_SIZE, inv.songs)]

page_song_paths_panics(inv) ==
    page_song_paths(inv).start_idx > page_song_paths(inv).end_idx

\* SongSelectionInventory::new: the first page of the songs of the songs
\* directory, no keywords; the component has just been added (Changed), and
\* the build has overflow checks or has none
InitPaging ==
    /\ state = "SongSelection"
    /\ ticks_left = 0
    /\ beatmap = NoBeatmap
    /\ bstate = DefaultBeatmapState
    /\ circles = NoCircles
    /\ audio = [playing |-> FALSE, pos |-> 0]
    /\ beatmap_selection_data = FALSE
    /\ inventory_loaded = FALSE
    /\ judgements = NoJudgements
    /\ \E n \in 0..MaxSongs, checks \in BOOLEAN :
          last = [kind |-> "song_selection", cur_page |-> 0, songs |-> n, keywords |-> FALSE,
                  changed |-> TRUE, overflow_checks |-> checks, panicked |-> FALSE]

\* a step of the song selection that takes the inventory to inv, or panics
Paging(panics, inv) ==
    /\ last.kind = "song_selection"
    /\ ~last.panicked
    /\ last' = IF panics THEN [last EXCEPT !.panicked = TRUE] ELSE inv
    /\ UNCHANGED <<state, ticks_left, beatmap, bstate, circles, audio,
                   beatmap_selection_data, inventory_loaded, judgements>>

\* handle_song_selection_clicks, a click on the slot of an arrow (lines
\* 253-278): the page changes when there is one to go to, then the song of
\* the clicked slot is looked up in the page, which has none for an arrow slot
PageClick(slot) ==
    LET next == slot = NEXT_PAGE_SLOT
        turned == IF next /\ has_next_page(last)
                  THEN [last EXCEPT !.cur_page = @ + 1, !.changed = TRUE]
                  ELSE IF ~next /\ has_previous_page(last)
                  THEN [last EXCEPT !.cur_page = @ - 1, !.changed = TRUE]
                  ELSE last
    IN  Paging((next /\ max_page_panics(last)) \/ page_song_paths_panics(turned), turned)

\* execute_commands, filter-songs (keywords) and reset-filter (none):
\* set_filter leaves n songs and goes to the first page; nothing is set when
\* the songs directory cannot be read
SetFilter(n, keywords, dir_ok) ==
    Paging(FALSE, IF dir_ok THEN [last EXCEPT !.songs = n, !.keywords = keywords,
                                              !.cur_page = 0, !.changed = TRUE]
                  ELSE [last EXCEPT !.changed = TRUE])

\* update_song_selection_inventory, for a changed inventory: max_page, the
\* songs of the page and the two arrows
UpdateSongSelectionInventory ==
    /\ last.changed
    /\ Paging(max_page_panics(last) \/ page_song_paths_panics(last),
              [last EXCEPT !.changed = FALSE])

NextPaging ==
    \/ \E slot \in {NEXT_PAGE_SLOT, PREVIOUS_PAGE_SLOT} : PageClick(slot)
    \/ \E n \in 0..MaxSongs, keywords \in BOOLEAN : SetFilter(n, keywords, TRUE)
    \/ SetFilter(0, FALSE, FALSE)
    \/ UpdateSongSelectionInventory

PagingSpec == InitPaging /\ [][NextPaging]_vars

(* -------------------------- digit.rs: DigitsIter ----------------------- *)
RECURSIVE Pow10(_)
\* 10_usize.pow(k)
Pow10(k) == IF k = 0 THEN 1 ELSE 10 * Pow10(k - 1)

\* the loop of the mutant stops at temp = 10
RECURSIVE DigitsIterNew_Exclusive(_)
DigitsIterNew_Exclusive(temp) ==
    IF temp > 10 THEN 1 + DigitsIterNew_Exclusive(temp \div 10) ELSE 1

\* DigitsIter::new(number).digits: while temp >= 10 { temp /= 10; digits += 1 }
RECURSIVE DigitsIterNew(_)
DigitsIterNew(temp) ==
    IF temp >= 10 THEN 1 + DigitsIterNew(temp \div 10) ELSE 1

\* a number whose digits are asked for
InitDigits ==
    /\ state = "Playing"
    /\ ticks_left = 0
    /\ beatmap = NoBeatmap
    /\ bstate = DefaultBeatmapState
    /\ circles = NoCircles
    /\ audio = [playing |-> FALSE, pos |-> 0]
    /\ beatmap_selection_data = FALSE
    /\ inventory_loaded = FALSE
    /\ judgements = NoJudgements
    /\ \E n \in 0..MaxNumber : last = [kind |-> "number", input |-> n]

\* DigitsIter::new(number); collected holds what the iterator has yielded
DigitsNew ==
    /\ last.kind = "number"
    /\ last' = [kind |-> "digits_iter", input |-> last.input, number |-> last.input,
                digits |-> DigitsIterNew(last.input), collected |-> <<>>, done |-> FALSE]
    /\ UNCHANGED <<state, ticks_left, beatmap, bstate, circles, audio,
                   beatmap_selection_data, inventory_loaded, judgements>>

\* DigitsIter::next: None when no digit is left, otherwise the quotient of
\* the number by 10^digits as u8, and the remainder is kept
DigitsNext ==
    /\ last.kind = "digits_iter"
    /\ ~last.done
    /\ IF last.digits = 0
       THEN last' = [last EXCEPT !.done = TRUE]
       ELSE LET quotient == Max(Pow10(last.digits - 1), 1)
            IN  last' = [last EXCEPT !.digits = @ - 1,
                                     !.number = @ % quotient,
                                     !.collected = Append(@, (last.number \div quotient) % 256)]
    /\ UNCHANGED <<state, ticks_left, beatmap, bstate, circles, audio,
                   beatmap_selection_data, inventory_loaded, judgements>>

NextDigits == DigitsNew \/ DigitsNext

DigitsSpec == InitDigits /\ [][NextDigits]_vars

(* ============================== claims ================================= *)
\* a step of update_osu (any branch) has just been taken
UpdateOsuStep == last'.kind \in {"tick", "play"}
\* a step of the Playing branch that expires, spawns and judges
PlayTick == state = "Playing" /\ last'.kind = "play"

\* C1: while Playing, a tick asks for the Result (ScoreDisplay) exactly when at
\* its start the queue is empty, the cursor has passed the last hit object and
\* the audio has finished
C1_ResultIffFinished ==
    [][ (state = "Playing" /\ UpdateOsuStep) =>
            ( last'.change = "ScoreDisplay"
              <=> ( /\ bstate.active_hit_objects = <<>>
                    /\ bstate.next_hit_object_idx >= Len(beatmap.hit_objects)
                    /\ ~audio.playing ) ) ]_vars

C1_Witness == last.kind = "tick" /\ last.change = "ScoreDisplay"

C3_HealthInRange == bstate.health >= 0 /\ bstate.health <= HealthFull

\* a Hit300 at full health, and a hit that takes more health than is left
C3_Witness ==
    /\ state = "Playing"
    /\ bstate.health = HealthFull
    /\ bstate.hits300 > 0

\* C4: every click event that judges, judges the hitcircle that is the head of
\* the queue when the event is processed
C4_OnlyHeadJudged ==
    \A i \in 1..Len(last.judged) : last.judged[i].target = last.judged[i].head

\* C5: after a Playing tick whose materialization did not fail, the next
\* unspawned hit object is not due: its time is after play_time + lookahead
C5_AllDueSpawned ==
    ( /\ state = "Playing"
      /\ last.kind = "play"
      /\ ~last.spawn_failed
      /\ bstate.next_hit_object_idx < Len(beatmap.hit_objects) )
    => beatmap.hit_objects[bstate.next_hit_object_idx + 1] * 1000
          > bstate.play_time_us + to_mc_duration_us(beatmap.ar)

\* C6: hit objects are spawned in beatmap order, each at most once: the cursor
\* moves by one per spawn, the hitcircle spawned is the one of the hit object
\* at the cursor, and the queue holds the hitcircles in spawn order
C6_SpawnInOrder ==
    [][ (state = "Playing" /\ state' = "Playing") =>
            LET i == bstate.next_hit_object_idx
                j == bstate'.next_hit_object_idx
                q == bstate'.active_hit_objects
            IN  /\ j \in {i, i + 1}
                /\ j = i + 1 => (last'.kind = "play" /\ last'.spawned = i + 1)
                /\ (last'.kind = "play" /\ j = i) => last'.spawned = 0
                /\ \A m \in 1..Len(q) : q[m] <= j
                /\ \A m, n \in 1..Len(q) : m < n => q[m] < q[n]
                /\ (j = i + 1 /\ last'.judged = <<>>) => q[Len(q)] = i + 1 ]_vars

C6_Witness == state = "Playing" /\ bstate.active_hit_objects = <<1, 2>>

\* the number of hitcircles at the head of the queue q whose entity is gone
GoneAtHead(q, c) ==
    CHOOSE k \in 0..Len(q) :
        /\ \A m \in 1..k : c[q[m]] = Absent
        /\ k < Len(q) => c[q[k + 1]] # Absent

\* C7: the expire step pops the hitcircles at the head of the queue whose
\* entity is gone, each as a forced Miss: one more miss each, combo 0, health
\* drained as for a Miss; hitcircles behind a live head stay
C7_ExpireIsForcedMiss ==
    [][ (PlayTick /\ last'.judged = <<>>) =>
            LET q == bstate.active_hit_objects
                k == GoneAtHead(q, circles)
                kept == SubSeq(q, k + 1, Len(q))
            IN  /\ last'.expired = k
                /\ bstate'.misses = bstate.misses + k
                /\ bstate'.combo = IF k > 0 THEN 0 ELSE bstate.combo
                /\ bstate'.health = Max(0, Min(HealthFull, bstate.health - k * 2 * beatmap.hp))
                /\ SubSeq(bstate'.active_hit_objects, 1, Len(kept)) = kept
                /\ bstate'.hits300 = bstate.hits300
                /\ bstate'.hits100 = bstate.hits100
                /\ bstate'.hits50 = bstate.hits50
                /\ bstate'.max_combo = bstate.max_combo
                /\ bstate'.score = bstate.score ]_vars

C7_Witness ==
    /\ state = "Playing"
    /\ last.kind = "play"
    /\ last.expired > 0
    /\ bstate.hits300 + bstate.hits100 + bstate.hits50 > 0

\* C8: every materialized hit object is resolved: once it has left the queue
\* a judgement has been counted for it, and a forced Miss is counted only for
\* a hitcircle whose lifetime has run out
C8_EveryObjectResolved ==
    state = "Playing" =>
        \A e \in Entities :
            /\ (e <= bstate.next_hit_object_idx /\ e \notin Range(bstate.active_hit_objects))
                  => judgements[e] # <<>>
            /\ "Expired" \in Range(judgements[e]) => circles[e] = Absent

\* C9: a hit object whose materialization fails is skipped: the cursor moves
\* past it
C9_FailedSpawnSkipped ==
    [][ (PlayTick /\ last'.spawn_failed) =>
            bstate'.next_hit_object_idx = bstate.next_hit_object_idx + 1 ]_vars

\* the judgement of a timing error, as C10 states it
GradeOfTimingError(w, t) ==
    LET timing_error == Abs(w.window_50 - t)
    IN  IF timing_error <= w.window_300 THEN "Hit300"
        ELSE IF timing_error <= w.window_100 THEN "Hit100"
        ELSE IF timing_error <= w.window_50 THEN "Hit50"
        ELSE "Miss"

\* the judgements of the beatmap b follow the timing error: for every number t
\* of remaining ticks of a hitcircle the grade is that of the timing error,
\* t = window_50 is a Hit300, and a larger timing error never gives a better
\* judgement
TableByTimingError(b) ==
    LET w == HitwindowTicksFrom(HitwindowFrom(b.od), TPS)
        T == 0..(CircleTicks(b) + 1)
    IN  /\ \A t \in T : Hitcircle_hit_score(b, TRUE, t) = GradeOfTimingError(w, t)
        /\ Hitcircle_hit_score(b, TRUE, w.window_50) = "Hit300"
        /\ \A t1, t2 \in T :
              Abs(w.window_50 - t1) <= Abs(w.window_50 - t2)
                 => HitValue(Hitcircle_hit_score(b, TRUE, t1))
                       >= HitValue(Hitcircle_hit_score(b, TRUE, t2))

\* C10: a successful aim at ticks_left = t is judged by the timing error
\* |window_50 - t|: Hit300 within the best window, else Hit100 within the good
\* one, else Hit50 within the acceptable one, else Miss; t = window_50 is a
\* Hit300 and a larger timing error never gives a better judgement. This holds
\* of every beatmap when it is loaded, for every t, and of every judgement
\* made while it is played
C10_JudgedByTimingError ==
    /\ state = "PrePlaying" => TableByTimingError(beatmap)
    /\ state = "Playing" =>
          LET w == HitwindowTicksFrom(HitwindowFrom(beatmap.od), TPS)
          IN  \A i \in 1..Len(last.judged) :
                  last.judged[i].hit = GradeOfTimingError(w, last.judged[i].ticks_left)

C10_Witness ==
    /\ state = "Playing"
    /\ \E i \in 1..Len(last.judged) : last.judged[i].hit = "Hit50"

\* the aim test of a click event succeeded
IsAimed(e) == e

\* C11: a click event whose aim test fails makes no judgement: the tick ends
\* as it would without that event, and a tick whose events all fail the aim
\* test leaves the queue, score, combo, max combo, health and counts as the
\* expiry and spawn steps left them
C11_OffAimNoJudgement ==
    [][ (PlayTick /\ \E i \in 1..Len(last'.events) : ~IsAimed(last'.events[i])) =>
          LET bs2   == SpawnStep(beatmap, ExpireStep(beatmap, bstate, circles), audio)
              aimed == SelectSeq(last'.events, IsAimed)
          IN  /\ Len(last'.judged) <= Len(aimed)
              /\ IF aimed = <<>> THEN bstate' = bs2
                 ELSE \E seen \in {circles, update_hitcircle(circles)} :
                          bstate' = ClickStep(beatmap, bs2, aimed, seen).bs ]_vars

\* a tick with a click off a hitcircle that is at the head of the queue and
\* could have been judged
C11_Witness ==
    /\ state = "Playing"
    /\ last.kind = "play"
    /\ last.events = <<FALSE>>
    /\ bstate.active_hit_objects # <<>>
    /\ last.spawned # Head(bstate.active_hit_objects)
    /\ circles[Head(bstate.active_hit_objects)] # Absent

\* a judgement has just been applied by the score keeping
JudgeStep == last'.kind = "judge"
\* the judgement that has just been applied
JudgedHit == last'.judged[1].hit

\* C12: each judgement adds value * (1 + combo_multiplier *
\* difficulty_multiplier / 25) to the score, with combo_multiplier =
\* max(combo before the hit - 1, 0); a Miss adds 0 and the first two hits of a
\* combo add their value
C12_ScoreIncrementExact ==
    [][ JudgeStep =>
          LET combo_multiplier == Max(bstate.combo - 1, 0)
              k == combo_multiplier * difficulty_multiplier(beatmap)
          IN  /\ 25 * (bstate'.score - bstate.score) = HitValue(JudgedHit) * (25 + k)
              /\ JudgedHit = "Miss" => bstate'.score = bstate.score
              /\ bstate.combo <= 1 => bstate'.score = bstate.score + HitValue(JudgedHit) ]_vars

RECURSIVE ComboAfter(_, _)
\* combo and max_combo after the judgements hits, as C13 states them
ComboAfter(cm, hits) ==
    IF hits = <<>> THEN cm
    ELSE IF Head(hits) = "Miss"
    THEN ComboAfter([combo |-> 0, max_combo |-> cm.max_combo], Tail(hits))
    ELSE ComboAfter([combo |-> cm.combo + 1, max_combo |-> Max(cm.max_combo, cm.combo + 1)],
                    Tail(hits))

\* C13: every judgement that is not a Miss adds 1 to combo and sets max_combo
\* to max(max_combo, combo); every Miss, judged or forced by expiry, sets
\* combo to 0 and leaves max_combo as it was. A tick applies its forced
\* misses, then its judgements in order
C13_ComboRule ==
    [][ PlayTick =>
          LET hits == [i \in 1..last'.expired |-> "Miss"]
                         \o [i \in 1..Len(last'.judged) |-> last'.judged[i].hit]
              cm   == ComboAfter([combo |-> bstate.combo, max_combo |-> bstate.max_combo], hits)
          IN  /\ bstate'.combo = cm.combo
              /\ bstate'.max_combo = cm.max_combo ]_vars

\* a tick whose Miss, judged or forced, has ended a combo
C13_Witness ==
    /\ state = "Playing"
    /\ last.kind = "play"
    /\ last.expired > 0 \/ \E i \in 1..Len(last.judged) : last.judged[i].hit = "Miss"
    /\ bstate.combo = 0
    /\ bstate.max_combo >= 1

\* C14: the accuracy is (300 * best + 100 * good + 50 * acceptable) /
\* (300 * total judged) as a percentage, 0 when nothing has been judged, and
\* within [0, 100]; for the counts 438, 9, 1, 0 it is within 0.01 of 98.47
C14_AccuracyFormula ==
    last.kind = "score_text" =>
        LET total == bstate.hits300 + bstate.hits100 + bstate.hits50 + bstate.misses
            a     == last.accuracy
        IN  /\ a.den > 0
            /\ total = 0 => a.num = 0
            /\ total > 0 =>
                  \* a = 100 * (300 * best + ...) / (300 * total), cross-multiplied
                  a.num * (3 * total)
                     = (300 * bstate.hits300 + 100 * bstate.hits100 + 50 * bstate.hits50)
                           * a.den
            /\ 0 <= a.num /\ a.num <= 100 * a.den
            /\ [c \in DOMAIN TestCounts |-> bstate[c]] = TestCounts =>
                  Abs(100 * a.num - 9847 * a.den) < a.den

\* the accuracy of the counts of the test has been shown
C14_Witness ==
    /\ last.kind = "score_text"
    /\ [c \in DOMAIN TestCounts |-> bstate[c]] = TestCounts

\* the grade as C15 states it, for total > 0: the first rule that matches,
\* with the accuracy of C14, p300 = best / total and p50 = acceptable / total
GradeAsClaimed(bs) ==
    LET total == bs.hits300 + bs.hits100 + bs.hits50 + bs.misses
        \* accuracy >= 99.999: 100 * w / (300 * total) >= 99999 / 1000
        w     == 300 * bs.hits300 + 100 * bs.hits100 + 50 * bs.hits50
        SS    == 1000 * w >= 99999 * 3 * total
        S     == bs.misses = 0 /\ 10 * bs.hits300 > 9 * total /\ 100 * bs.hits50 <= total
        A     == (10 * bs.hits300 > 8 * total /\ bs.misses = 0) \/ 10 * bs.hits300 > 9 * total
        B     == (10 * bs.hits300 > 7 * total /\ bs.misses = 0) \/ 10 * bs.hits300 > 8 * total
        C     == 10 * bs.hits300 > 6 * total
    IN  CASE SS -> "SS"
          [] ~SS /\ S -> "S"
          [] ~SS /\ ~S /\ A -> "A"
          [] ~SS /\ ~S /\ ~A /\ B -> "B"
          [] ~SS /\ ~S /\ ~A /\ ~B /\ C -> "C"
          [] OTHER -> "D"

\* C15: the grade is that of the first matching rule, in the order SS, S, A,
\* B, C, D
C15_GradeRules ==
    (last.kind = "score_text" /\ JudgedCount(bstate) > 0)
        => last.grade = GradeAsClaimed(bstate)

\* an S that the rule of A matches too, and an A with a Miss
C15_Witness ==
    /\ last.kind = "score_text"
    /\ \/ last.grade = "S" /\ bstate.hits100 > 0
       \/ last.grade = "A" /\ bstate.misses > 0

\* a tick of update_osu in PrePlaying
PreRollTick == state = "PrePlaying" /\ UpdateOsuStep

\* C16 as claimed: a PrePlaying tick with ticks_left > 0 takes one from
\* ticks_left and stays in PrePlaying; the tick that finds ticks_left = 0
\* goes to Playing and starts the audio
C16_CountdownThenPlaying ==
    [][ PreRollTick =>
          IF ticks_left > 0
          THEN state' = "PrePlaying" /\ ticks_left' = ticks_left - 1 /\ audio' = audio
          ELSE state' = "Playing" /\ audio' = [playing |-> TRUE, pos |-> 0] ]_vars

\* C16 as amended: a PrePlaying tick with ticks_left > 0 takes one from
\* ticks_left and stays in PrePlaying; the tick that finds ticks_left = 0 asks
\* for Playing: when the audio of the beatmap loads it goes to Playing with
\* the audio started, otherwise the audio is stopped and the session stays in
\* PrePlaying with ticks_left = 0, so that the next tick asks again.  Playing
\* is entered by no other step
C16_CountdownThenPlayingIfAudio ==
    [][ /\ PreRollTick =>
              IF ticks_left > 0
              THEN /\ state' = "PrePlaying" /\ ticks_left' = ticks_left - 1 /\ audio' = audio
                   /\ last'.change = "none"
              ELSE /\ last'.change = "Playing"
                   /\ IF last'.ok
                      THEN state' = "Playing" /\ audio' = [playing |-> TRUE, pos |-> 0]
                      ELSE /\ state' = "PrePlaying" /\ ticks_left' = 0
                           /\ ~audio'.playing
        /\ (state # "Playing" /\ state' = "Playing") =>
              PreRollTick /\ ticks_left = 0 ]_vars

\* Playing has been entered after a countdown
C16_Witness ==
    /\ state = "Playing"
    /\ last.kind = "tick"
    /\ last.change = "Playing"
    /\ PrePlayingTicks(beatmap) > 0

\* a beatmap has just been loaded by a click in the beatmap selection
BeatmapLoaded == last'.kind = "beatmap_click" /\ last'.ok

\* C17 as claimed: the ticks of PrePlaying are the time of the first hit
\* object minus the lead of 3000 ms, in ticks of 50 ms, not below 0; 60 for a
\* beatmap without hit objects
C17_TicksFirstMinusLead ==
    [][ BeatmapLoaded =>
          ticks_left' = IF beatmap'.hit_objects = <<>> THEN 60
                        ELSE Max((beatmap'.hit_objects[1] - 3000) \div 50, 0) ]_vars

\* C17 as amended: the ticks of PrePlaying are the lead of 3000 ms minus the
\* time of the first hit object, in whole ticks of 50 ms, not below 0; 60 for
\* a beatmap without hit objects
C17_TicksLeadMinusFirst ==
    [][ BeatmapLoaded =>
          /\ state' = "PrePlaying"
          /\ IF beatmap'.hit_objects = <<>> THEN ticks_left' = 60
             ELSE LET before == 3000 - beatmap'.hit_objects[1]
                  IN  IF before <= 0 THEN ticks_left' = 0
                      ELSE /\ 50 * ticks_left' <= before
                           /\ before < 50 * (ticks_left' + 1) ]_vars

\* a beatmap whose first hit object comes before the lead time has been loaded
C17_Witness ==
    /\ state = "PrePlaying"
    /\ last.kind = "beatmap_click"
    /\ beatmap.hit_objects # <<>>
    /\ ticks_left > 0

\* C18: when PrePlaying gives way to Playing the beatmap state is fresh: the
\* counts, combo, max combo and score are 0, the health is full, the cursor
\* is at the first hit object and the queue is empty, whatever an earlier
\* attempt has left
C18_FreshAtPlaying ==
    [][ (state = "PrePlaying" /\ state' = "Playing") =>
          /\ bstate'.hits300 = 0 /\ bstate'.hits100 = 0
          /\ bstate'.hits50 = 0 /\ bstate'.misses = 0
          /\ bstate'.combo = 0 /\ bstate'.max_combo = 0 /\ bstate'.score = 0
          /\ bstate'.health = HealthFull
          /\ bstate'.next_hit_object_idx = 0
          /\ bstate'.active_hit_objects = <<>> ]_vars

\* Playing has been entered with a beatmap that was selected during an
\* attempt with counted judgements
C18_Witness ==
    /\ state = "Playing"
    /\ last.kind = "tick"
    /\ last.change = "Playing"
    /\ last.aborted

\* the step ends the attempt: update_osu has asked for ScoreDisplay or Failed
AttemptEnds == state = "Playing" /\ last'.change \in {"ScoreDisplay", "Failed"}

\* C19: when an attempt ends in ScoreDisplay or Failed the session is in
\* BeatmapSelection if beatmap_selection_data was set and in SongSelection
\* otherwise; it is never left in Playing or put back to PrePlaying
C19_ReturnAfterEnd ==
    [][ AttemptEnds =>
          /\ state' = IF beatmap_selection_data THEN "BeatmapSelection" ELSE "SongSelection"
          /\ state' \notin {"Playing", "PrePlaying"} ]_vars

\* a click handler calls change_state while an attempt is in Playing
ExternalRequest ==
    state = "Playing" /\ last'.kind \in {"song_click", "back_click", "beatmap_click"}

\* the music of the attempt no longer plays: the player is stopped, or plays
\* the music it has just been given from its start
AttemptAudioStopped == ~audio'.playing \/ audio'.pos = 0

\* the state of the attempt is gone: nothing is counted, queued or spawned
AttemptDiscarded ==
    /\ bstate' = DefaultBeatmapState
    /\ circles' = NoCircles

\* C20: a request of a click handler that calls change_state while Playing
\* takes the session out of Playing in that step, stops the music of the
\* attempt and discards the beatmap state of the attempt
C20_RequestEndsAttempt ==
    [][ ExternalRequest =>
          state' # "Playing" /\ AttemptAudioStopped /\ AttemptDiscarded ]_vars

\* the times are in non-decreasing order
TimeSorted(t) == \A i \in 1..(Len(t) - 1) : t[i] <= t[i + 1]

\* C21: Beatmap::try_from returns an error, and no beatmap, when one of the
\* four difficulty fields is absent and when the hit objects of the file are
\* not sorted by non-decreasing time
C21_InvalidBeatmapRejected ==
    (last.kind = "try_from"
       /\ ( \/ Missing \in {last.file.od, last.file.cs, last.file.ar, last.file.hp}
            \/ ~TimeSorted(last.file.times) ))
    => (~last.ok /\ beatmap = NoBeatmap)

\* change_state(PrePlaying) has returned an error: the beatmap was not loaded
FailedLoad == last'.kind = "beatmap_click" /\ ~last'.ok

\* C22: when loading a beatmap fails nothing of the load takes effect: the
\* session state, the stored selection context and the audio player are as
\* they were before the request
C22_FailedLoadNoEffect ==
    [][ FailedLoad =>
          /\ state' = state
          /\ beatmap_selection_data' = beatmap_selection_data
          /\ audio' = audio ]_vars

\* Hitwindow::from has been applied to the overall difficulty of the beatmap
HitwindowApplied == last.kind = "hitwindow"

\* the hit windows of the examples of the claim, which are those of
\* test::od_hitwindow
HitwindowExamples ==
    /\ beatmap.od = 100 =>
          last.result.ms = [window_300 |-> 20, window_100 |-> 60, window_50 |-> 100]
    /\ beatmap.od = 50 =>
          last.result.ms = [window_300 |-> 50, window_100 |-> 100, window_50 |-> 150]
    /\ beatmap.od = 10 =>
          last.result.ms = [window_300 |-> 74, window_100 |-> 132, window_50 |-> 190]

\* C23 as claimed: the hit windows of od are 80 - 6 od, 140 - 8 od and
\* 200 - 10 od milliseconds and never negative, with (20, 60, 100) for OD 10,
\* (50, 100, 150) for OD 5 and (74, 132, 190) for OD 1
C23_HitWindowsExact ==
    HitwindowApplied =>
        LET w == last.result.ms
        IN  /\ 10 * w.window_300 = 800 - 6 * beatmap.od
            /\ 10 * w.window_100 = 1400 - 8 * beatmap.od
            /\ 10 * w.window_50 = 2000 - 10 * beatmap.od
            /\ w.window_300 >= 0 /\ w.window_100 >= 0 /\ w.window_50 >= 0
            /\ HitwindowExamples

\* n / 10 cut to a whole number w of milliseconds
Truncated(w, n) == 10 * w <= n /\ n < 10 * (w + 1)

\* C23: the hit windows of od are 80 - 6 od, 140 - 8 od and 200 - 10 od cut to
\* whole milliseconds and never negative, with (20, 60, 100) for OD 10,
\* (50, 100, 150) for OD 5 and (74, 132, 190) for OD 1
C23_HitWindowsTruncated ==
    HitwindowApplied =>
        LET w == last.result.ms
        IN  /\ Truncated(w.window_300, 800 - 6 * beatmap.od)
            /\ Truncated(w.window_100, 1400 - 8 * beatmap.od)
            /\ Truncated(w.window_50, 2000 - 10 * beatmap.od)
            /\ w.window_300 >= 0 /\ w.window_100 >= 0 /\ w.window_50 >= 0
            /\ HitwindowExamples

\* the hit windows of OD 4.9, whose first window 50.6 ms is cut to 50 ms
C23_Witness ==
    /\ HitwindowApplied
    /\ beatmap.od = 49
    /\ last.result.ms = [window_300 |-> 50, window_100 |-> 100, window_50 |-> 151]

\* C24: for every overall difficulty the hit windows are ordered, window_300
\* <= window_100 <= window_50, as durations and as ticks at every tick rate
C24_WindowsOrdered ==
    HitwindowApplied =>
        /\ last.result.ms.window_300 <= last.result.ms.window_100
        /\ last.result.ms.window_100 <= last.result.ms.window_50
        /\ last.result.ticks.window_300 <= last.result.ticks.window_100
        /\ last.result.ticks.window_100 <= last.result.ticks.window_50

\* OD 10 at 20 ticks per second: 20, 60 and 100 ms are 1, 2 and 2 ticks
C24_Witness ==
    /\ HitwindowApplied
    /\ beatmap.od = 100
    /\ last.arg = TPS
    /\ last.result.ticks = [window_300 |-> 1, window_100 |-> 2, window_50 |-> 2]

\* ten times the duration ms5 + below (5 - ar) / 5 under AR 5 and
\* ms5 - above (ar - 5) / 5 from AR 5 on, for ar in tenths
Piecewise10(ms5, below, above, ar) ==
    IF ar < 50 THEN 10 * ms5 + ((below * (50 - ar)) \div 5)
    ELSE 10 * ms5 - ((above * (ar - 50)) \div 5)

\* C25: preempt is 1200 + 600 (5 - ar) / 5 below AR 5, 1200 at AR 5 and
\* 1200 - 750 (ar - 5) / 5 above it, fade_in is 800 + 400 (5 - ar) / 5, 800 and
\* 800 - 500 (ar - 5) / 5 (AR 10: 450 and 300 ms, AR 5: 1200 and 800 ms, AR 1:
\* 1680 and 1120 ms), and the lookahead is (preempt + fade_in) / 2
C25_ApproachDurations ==
    last.kind = "approach_rate" =>
        /\ 10 * last.result.preempt = Piecewise10(1200, 600, 750, beatmap.ar)
        /\ 10 * last.result.fade_in = Piecewise10(800, 400, 500, beatmap.ar)
        /\ beatmap.ar = 100 => last.result.preempt = 450 /\ last.result.fade_in = 300
        /\ beatmap.ar = 50 => last.result.preempt = 1200 /\ last.result.fade_in = 800
        /\ beatmap.ar = 10 => last.result.preempt = 1680 /\ last.result.fade_in = 1120
        /\ 2 * last.result.mc_us = 1000 * (last.result.preempt + last.result.fade_in)

C27_MultiplierGuarded ==
    last.kind = "difficulty_multiplier" =>
        LET n    == Len(beatmap.hit_objects)
            secs == DrainSecs(beatmap)
            s10  == beatmap.hp + beatmap.cs + beatmap.od
        IN  /\ n = 0 => last.result = 0
            /\ (secs > 0 /\ 8 * n >= 16 * secs) =>
                  last.result = RoundDiv(5 * (s10 + 160), 380)
            /\ (secs > 0 /\ 8 * n < 16 * secs) =>
                  last.result = RoundDiv(5 * (s10 * secs + 80 * n), 380 * secs)

\* the change of health of the claim for a judgement, in thousandths:
\* (10.2 - hp) / 100, (8.0 - hp) / 100, (4.0 - hp) / 100 and (-2 hp) / 100
ClaimedDrain(hp, hit) ==
    IF hit = "Hit300" THEN 102 - hp
    ELSE IF hit = "Hit100" THEN 80 - hp
    ELSE IF hit = "Hit50" THEN 40 - hp
    ELSE 0 - 2 * hp

\* C28: drain adds (10.2 - HP) / 100 for a 300, (8.0 - HP) / 100 for a 100,
\* (4.0 - HP) / 100 for a 50 and (-2 HP) / 100 for a miss to the health and
\* clamps the sum to [0, 1]
C28_DrainThenClamp ==
    last.kind = "drain" =>
        LET sum == bstate.health + ClaimedDrain(beatmap.hp, last.arg)
        IN  last.result = IF sum < 0 THEN 0
                          ELSE IF sum > HealthFull THEN HealthFull
                          ELSE sum

\* a 300 at full health with HP 2.0 has been clamped to 1, and a miss at
\* health 0.02 with HP 5.0 to 0
C28_Witness ==
    /\ last.kind = "drain"
    /\ \/ last.arg = "Hit300" /\ beatmap.hp = 20 /\ bstate.health = HealthFull
                             /\ last.result = HealthFull
       \/ last.arg = "Miss" /\ beatmap.hp = 50 /\ bstate.health = 20 /\ last.result = 0

\* hit object j comes after hit object i, within the overlap window of i, and
\* the two lie closer than twice the radius
Overlapping(objs, i, j) ==
    /\ i < j
    /\ objs[j].time < objs[i].time + OVERLAP_THRESHOLD_MS
    /\ intersect(objs[i], objs[j], beatmap.cs)

\* the hit objects of test::hitobject_z: four circles at x = 0, radius,
\* 2 radius and 4 radius at the same time
TestObjects ==
    [i \in 1..4 |-> [x |-> <<0, 1, 2, 4>>[i] * TestRadius, y |-> 0, time |-> 0]]

\* C29: the depth of a hit object is 0 when no later hit object within the
\* overlap window lies closer than twice the radius, and one less than the
\* depth of the first such hit object otherwise; no depth is above 0, and
\* the four circles of the test get -2, -1, 0, 0
C29_DepthOfFirstOverlap ==
    last.kind = "z" =>
        LET objs == beatmap.hit_objects
            n    == Len(objs)
        IN  /\ \A i \in 1..n :
                  LET succ == {j \in 1..n : Overlapping(objs, i, j)}
                  IN  /\ succ = {} => last.result[i] = 0
                      /\ succ # {} =>
                            \E j \in succ : /\ \A k \in succ : j <= k
                                             /\ last.result[i] = last.result[j] - 1
                      /\ last.result[i] <= 0
            /\ objs = TestObjects => last.result = <<-2, -1, 0, 0>>

\* the depths of the four circles of the test have been computed
C29_Witness ==
    /\ last.kind = "z"
    /\ beatmap.hit_objects = TestObjects
    /\ last.result = <<-2, -1, 0, 0>>

\* C30: no two overlapping hit objects have the same depth, and the earlier
\* of two overlapping hit objects has the smaller depth
C30_OverlapsSeparated ==
    last.kind = "z" =>
        \A i, j \in 1..Len(beatmap.hit_objects) :
            Overlapping(beatmap.hit_objects, i, j) =>
                /\ last.result[i] # last.result[j]
                /\ last.result[i] < last.result[j]

\* what the score keeping holds of an attempt: score, combo, max combo, the
\* four judgement counts and health
ScoreKeeper(bs) ==
    [ score |-> bs.score, combo |-> bs.combo, max_combo |-> bs.max_combo,
      hits300 |-> bs.hits300, hits100 |-> bs.hits100, hits50 |-> bs.hits50,
      misses |-> bs.misses, health |-> bs.health ]

\* the score keeping k of a beatmap b after one more judgement
Fed(b, k, hit) ==
    [ score     |-> k.score + ScoreIncrement(b, k.combo, hit),
      combo     |-> IF hit = "Miss" THEN 0 ELSE k.combo + 1,
      max_combo |-> IF hit = "Miss" THEN k.max_combo ELSE Max(k.max_combo, k.combo + 1),
      hits300   |-> k.hits300 + (IF hit = "Hit300" THEN 1 ELSE 0),
      hits100   |-> k.hits100 + (IF hit = "Hit100" THEN 1 ELSE 0),
      hits50    |-> k.hits50 + (IF hit = "Hit50" THEN 1 ELSE 0),
      misses    |-> k.misses + (IF hit = "Miss" THEN 1 ELSE 0),
      health    |-> HpDrain(b.hp, k.health, hit) ]

RECURSIVE FedAll(_, _, _)
\* the score keeping k after the judgements hits, in order
FedAll(b, k, hits) ==
    IF hits = <<>> THEN k ELSE FedAll(b, Fed(b, k, Head(hits)), Tail(hits))

\* the judgements of the tick that has just been taken, in the order in which
\* they were counted: the forced misses, then the judged clicks
TickJudgements ==
    [i \in 1..last'.expired |-> "Miss"]
        \o [i \in 1..Len(last'.judged) |-> last'.judged[i].hit]

\* the step leaves the score keeping as it was
KeeperUnchanged ==
    /\ bstate'.score = bstate.score /\ bstate'.health = bstate.health
    /\ bstate'.combo = bstate.combo /\ bstate'.max_combo = bstate.max_combo
    /\ bstate'.hits300 = bstate.hits300 /\ bstate'.hits100 = bstate.hits100
    /\ bstate'.hits50 = bstate.hits50 /\ bstate'.misses = bstate.misses

\* C31: the score keeping is a function of the difficulty and of the sequence
\* of judgements alone: an attempt starts from the default beatmap state, a
\* Playing tick takes score, combo, max combo, the counts and health to what
\* feeding its judgements in order gives, whatever the play time, the queue
\* and the hitcircles are, no other step changes them while Playing, and the
\* accuracy shown is that of the counts; two attempts fed the same judgements
\* end alike
C31_ScoringDeterministic ==
    [][ IF state = "Playing"
        THEN IF last'.kind = "play"
             THEN IF last'.expired = 0 /\ last'.judged = <<>>
                  THEN KeeperUnchanged
                  ELSE ScoreKeeper(bstate')
                          = FedAll(beatmap, ScoreKeeper(bstate), TickJudgements)
             ELSE /\ state' = "Playing" => KeeperUnchanged
                  /\ last'.change = "ScoreDisplay" =>
                        last'.accuracy = accuracy([DefaultBeatmapState EXCEPT
                                                      !.hits300 = bstate.hits300,
                                                      !.hits100 = bstate.hits100,
                                                      !.hits50 = bstate.hits50,
                                                      !.misses = bstate.misses])
        ELSE state' = "Playing" =>
                 ScoreKeeper(bstate') = ScoreKeeper(DefaultBeatmapState) ]_vars

\* a tick has counted a forced miss and then a judged click
C31_Witness ==
    /\ state = "Playing"
    /\ last.kind = "play"
    /\ last.expired > 0
    /\ last.judged # <<>>

\* the hit object of the beatmap has just been materialized
ObjectMaterialized == last'.kind = "play" /\ last'.spawned = 1

\* C32: the single hit object at time 0 (AR 9, OD 8, CS 4.5, 20 ticks per
\* second) is materialized lookahead_duration(9) = 500 ms = 10 ticks before
\* playback time 0: in the tick of PrePlaying that has 10 ticks left before
\* the playback starts
C32_MaterializedBeforePlayback ==
    [][ ObjectMaterialized =>
          /\ to_mc_ticks(beatmap.ar, TPS) = 10
          /\ state = "PrePlaying"
          /\ ticks_left = to_mc_ticks(beatmap.ar, TPS) ]_vars

\* C33: when a Playing tick ends, the four judgement counts and the length of
\* the queue add up to the cursor, the number of hit objects spawned so far;
\* and the attempt that reaches the Result has counted as many judgements as
\* the beatmap has hit objects
C33_CountsMatchCursor ==
    [][ /\ PlayTick =>
              JudgedCount(bstate') + Len(bstate'.active_hit_objects)
                  = bstate'.next_hit_object_idx
        /\ (state = "Playing" /\ last'.change = "ScoreDisplay") =>
              JudgedCount(bstate) = Len(beatmap.hit_objects) ]_vars

\* C34: every materialized hit object gets at most one judgement, however
\* many click events a tick brings: no click event judges a hitcircle that an
\* earlier event of the tick has judged, and a hitcircle that has left the
\* queue has a judgement counted for it
C34_AtMostOneJudgement ==
    state = "Playing" =>
        /\ \A e \in Entities : Len(judgements[e]) <= 1
        /\ \A i, j \in 1..Len(last.judged) :
              i < j => last.judged[i].target # last.judged[j].target
        /\ \A e \in 1..bstate.next_hit_object_idx :
              e \notin Range(bstate.active_hit_objects) => Len(judgements[e]) = 1

\* C35: with a server that keeps ticking, an audio clock that runs to the end
\* of a track that is as long as the last hit object is late, and hitcircles
\* that can be constructed, every attempt in Playing leaves Playing after
\* update_osu has asked for the Result or for Failed, whatever the click
\* events are
C35_AttemptTerminates ==
    (state = "Playing")
        ~> (state # "Playing" /\ last.kind = "tick"
                /\ last.change \in {"ScoreDisplay", "Failed"})

\* an attempt has been left after every hit object was spawned and resolved
C35_Witness ==
    /\ state = "BeatmapSelection"
    /\ last.kind = "tick"
    /\ last.change \in {"ScoreDisplay", "Failed"}
    /\ last.ok

\* C36: a Playing tick that starts with health 0 ends the attempt as Failed:
\* it does not ask for the Result, it applies no expiry and no judgement, and
\* the health is not raised
C36_ZeroHealthFails ==
    [][ (state = "Playing" /\ bstate.health = 0 /\ UpdateOsuStep) =>
          /\ last'.change = "Failed"
          /\ last'.change # "ScoreDisplay"
          /\ last'.judged = <<>> /\ last'.expired = 0
          /\ state' = "Playing" => bstate'.health = 0 ]_vars

\* combo <= max_combo <= hits300 + hits100 + hits50 in the beatmap state bs
ComboBounded(bs) ==
    /\ bs.combo <= bs.max_combo
    /\ bs.max_combo <= bs.hits300 + bs.hits100 + bs.hits50

\* C37: in every state of an attempt combo <= max_combo <= hits300 + hits100
\* + hits50, and the score of an attempt never goes down from one tick to the
\* next
C37_ComboAndScoreMonotone ==
    [][ /\ ComboBounded(bstate) /\ ComboBounded(bstate')
        /\ (state = "Playing" /\ state' = "Playing") => bstate'.score >= bstate.score ]_vars

\* a judged Miss has ended a combo that had scored
C37_Witness ==
    /\ state = "Playing"
    /\ last.kind = "play"
    /\ \E i \in 1..Len(last.judged) : last.judged[i].hit = "Miss"
    /\ bstate.combo < bstate.max_combo
    /\ bstate.score > 0

\* C38: for every overall difficulty the windows in ticks satisfy window_300
\* <= window_50 and window_100 <= window_50, so that no hit_time - window of
\* HitwindowTicks::hit_score falls below 0: the lower end of each range is the
\* difference itself, and every ticks_left is judged as the whole-number
\* ranges hit_time - window .. hit_time + window say
C38_NoUnderflow ==
    last.kind = "hit_score" =>
        LET w        == last.result.windows
            hit_time == w.window_50
            Within(window) == hit_time - window <= last.arg /\ last.arg <= hit_time + window
        IN  /\ w.window_300 <= w.window_50
            /\ w.window_100 <= w.window_50
            /\ \A f \in DOMAIN w : /\ last.result.low[f] = hit_time - w[f]
                                   /\ last.result.low[f] >= 0
            /\ last.result.hit = IF Within(w.window_300) THEN "Hit300"
                                 ELSE IF Within(w.window_100) THEN "Hit100"
                                 ELSE IF Within(w.window_50) THEN "Hit50"
                                 ELSE "Miss"

\* OD 10 at ticks_left = 0: the windows are 1, 2 and 2 ticks, the range of the
\* second starts at 2 - 2 = 0 and the judgement is a Hit100
C38_Witness ==
    /\ last.kind = "hit_score"
    /\ beatmap.od = 100
    /\ last.arg = 0
    /\ last.result.low = [window_300 |-> 1, window_100 |-> 0, window_50 |-> 0]
    /\ last.result.hit = "Hit100"

\* C39: after any next-page clicks, previous-page clicks and filter changes
\* the song selection has not panicked, its page is within 0 .. max_page,
\* the largest page that holds a song (0 when there is no song), and the slice
\* of the page lies within the list of songs, also when no song is left
C39_PageInBounds ==
    last.kind = "song_selection" =>
        /\ ~last.panicked
        /\ 0 <= last.cur_page
        /\ last.cur_page <= (IF last.songs = 0 THEN 0 ELSE (last.songs - 1) \div PAGE_SIZE)
        /\ last.cur_page * PAGE_SIZE <= last.songs
        /\ Min(last.cur_page * PAGE_SIZE + PAGE_SIZE, last.songs) <= last.songs

RECURSIVE Recombined(_)
\* the number whose decimal digits, most significant first, are ds
Recombined(ds) ==
    IF ds = <<>> THEN 0
    ELSE 10 * Recombined(SubSeq(ds, 1, Len(ds) - 1)) + ds[Len(ds)]

\* C40: DigitsIter::new(n) yields the decimal digits of n, most significant
\* first: every item is a digit, there are as many as n has digits, one 0
\* for n = 0 and no leading 0 otherwise, and they recombine to n; the
\* numbers of test::digits_iter give [0], [9], [1, 0], [6, 6, 6], [1, 0, 0, 0]
C40_DigitsRecombine ==
    (last.kind = "digits_iter" /\ last.done) =>
        LET ds == last.collected
            n  == last.input
        IN  /\ \A i \in 1..Len(ds) : ds[i] \in 0..9
            /\ Len(ds) >= 1
            /\ n = 0 => ds = <<0>>
            /\ n > 0 => ds[1] # 0
            /\ Recombined(ds) = n
            /\ n = 9 => ds = <<9>>
            /\ n = 10 => ds = <<1, 0>>
            /\ n = 666 => ds = <<6, 6, 6>>
            /\ n = 1000 => ds = <<1, 0, 0, 0>>

\* the digits of 1000 have been collected
C40_Witness ==
    /\ last.kind = "digits_iter"
    /\ last.done
    /\ last.input = 1000
    /\ last.collected = <<1, 0, 0, 0>>

====
